---- MODULE Spec2Model ----
(***************************************************************************)
(* A model of client-hunter: the WordPress detector, the contact           *)
(* extractor and the batch scraper.  Strings are TLA+ strings; the string  *)
(* functions of the source (toLowerCase, includes, startsWith, replace,    *)
(* split, trim, the regular expressions) are operators that compute on     *)
(* the characters.                                                         *)
(***************************************************************************)
EXTENDS Integers, Sequences, FiniteSets, TLC

VARIABLES
    dUrls,      \* checkWordPressBatch: the urls argument
    dI,         \* checkWordPressBatch: number of urls already processed
    dResults,   \* checkWordPressBatch: the results array
    dLog,       \* detector: requests and pauses, in the order they happen
    det,        \* detector: the last isWordPressSite call and its outcome
    eUrl,       \* extractFromWordPressSite: the url argument
    eI,         \* extractContactInfo: number of urlsToCheck already visited
    eInfo,      \* extractContactInfo: the contactInfo accumulator
    eLog,       \* extractor: fetches and pauses, in the order they happen
    eRecord,    \* extractFromWordPressSite: the returned record, once returned
    ePc,        \* extractor: "idle", "loop", "returned", "done" or "raised"
    sOptions,   \* WordPressScraper: this.options
    sCall,      \* scrapeBatch: the options argument of the call
    sUrls,      \* scrapeBatch: the urls argument
    sI,         \* scrapeBatch: the loop index i (0-based)
    sResults,   \* scrapeBatch: the results array
    sDetection, \* scrapeWebsite: wpDetection of the url being processed
    sPc,        \* scraper: "idle", "detect", "extract" or "done"
    sHist,      \* scraper: for each url processed, whether its detection threw
    gOptions,   \* GoogleSearcher: this.options
    gCall,      \* findWordPressSites / searchByKeywords: the arguments of the call
    gBlocked,   \* the search requests that fail in this run (blocked, timed out)
    gQueries,   \* the queries the call goes through (queriesToUse)
    gQ,         \* the number of queries already processed
    gPage,      \* searchGoogle: the loop variable page
    gResults,   \* searchGoogle: the results array
    gReturned,  \* searchGoogle: the last call, its pages and what it returned
    gAll,       \* findWordPressSites / searchByKeywords: allResults
    gLog,       \* searcher: requests and pauses, in the order they happen
    gOut,       \* findWordPressSites / searchByKeywords: the returned list
    gPc,        \* searcher: "idle", "query", "page" or "done"
    pOptions,   \* WordPressProspector: this.options
    pEntry,     \* the entry point of the run and its arguments
    pPipeline,  \* the pipeline object of the run
    pLog,       \* the stages of the run, in the order they happen
    pExports,   \* exportResults: what it wrote, or that it threw
    pPc,        \* prospector: the stage the run is at
    cOptions,   \* scrape command: the options of the command line
    cFile,      \* scrape command: the lines of the file --file names
    cUrls,      \* scrape command: the variable urls
    cValid,     \* scrape command: validation.valid
    cPc,        \* scrape command: where the action is
    cExit,      \* the exit status of the process, -1 while it runs
    cDir,       \* DataExporter: the creation of the output directory
    cWrites,    \* DataExporter: the export writes, in the order they start
    faults      \* number of transient request failures injected so far

vars == <<dUrls, dI, dResults, dLog, det, eUrl, eI, eInfo, eLog, eRecord, ePc,
          sOptions, sCall, sUrls, sI, sResults, sDetection, sPc, sHist,
          gOptions, gCall, gBlocked, gQueries, gQ, gPage, gResults, gReturned, gAll,
          gLog, gOut, gPc, pOptions, pEntry, pPipeline, pLog, pExports, pPc,
          cOptions, cFile, cUrls, cValid, cPc, cExit, cDir, cWrites, faults>>

dVars == <<dUrls, dI, dResults, dLog, det>>
eVars == <<eUrl, eI, eInfo, eLog, eRecord, ePc>>
sVars == <<sOptions, sCall, sUrls, sI, sResults, sDetection, sPc, sHist>>
gVars == <<gOptions, gCall, gBlocked, gQueries, gQ, gPage, gResults, gReturned, gAll,
           gLog, gOut, gPc>>
pVars == <<pOptions, pEntry, pPipeline, pLog, pExports, pPc>>
cVars == <<cOptions, cFile, cUrls, cValid, cPc, cExit, cDir, cWrites>>

---------------------------------------------------------------------------
(* Bounds of the model *)

\* longest urls list given to a batch operation
MaxBatch == 2

\* most transient request failures (timeouts, resets) in one run
MaxFaults == 1

---------------------------------------------------------------------------
(* Strings *)

Range(s) == {s[i] : i \in 1..Len(s)}

Upper == "ABCDEFGHIJKLMNOPQRSTUVWXYZ"
Lower == "abcdefghijklmnopqrstuvwxyz"
Digits == "0123456789"

CharAt(s, i) == SubSeq(s, i, i)

\* the least element of a non-empty set of numbers
Least(S) == CHOOSE i \in S : \A j \in S : i <= j

\* the position of character c in alphabet a, 0 when absent
IndexIn(c, a) ==
    LET at == {i \in 1..Len(a) : CharAt(a, i) = c}
    IN  IF at = {} THEN 0 ELSE Least(at)

IsIn(c, a) == \E i \in 1..Len(a) : CharAt(a, i) = c

\* the characters of a string, as a set
CharsOf(a) == {CharAt(a, i) : i \in 1..Len(a)}
IsSpace(c) == c = " "

\* the lower-case letter of each upper-case letter
LowerTable == [c \in CharsOf(Upper) |-> CharAt(Lower, IndexIn(c, Upper))]

LowerChar(c) == IF c \in DOMAIN LowerTable THEN LowerTable[c] ELSE c

\* String.prototype.toLowerCase, character by character (by halves)
RECURSIVE ToLower(_)
ToLower(s) ==
    IF Len(s) = 0 THEN ""
    ELSE IF Len(s) = 1 THEN LowerChar(s)
    ELSE LET h == Len(s) \div 2
         IN  ToLower(SubSeq(s, 1, h)) \o ToLower(SubSeq(s, h + 1, Len(s)))

\* String.prototype.startsWith
StartsWith(s, t) == Len(t) <= Len(s) /\ SubSeq(s, 1, Len(t)) = t

\* String.prototype.indexOf: the first position of t in s from i on, 0 when absent
IndexOfFrom(s, t, i) ==
    LET at == {k \in i..(Len(s) - Len(t) + 1) : SubSeq(s, k, k + Len(t) - 1) = t}
    IN  IF at = {} THEN 0 ELSE Least(at)

IndexOf(s, t) == IndexOfFrom(s, t, 1)

\* String.prototype.includes
Includes(s, t) == IndexOf(s, t) > 0

\* the strings of a sequence, concatenated
RECURSIVE Concat(_)
Concat(ss) == IF ss = <<>> THEN "" ELSE Head(ss) \o Concat(Tail(ss))

\* Array.prototype.join
RECURSIVE Join(_, _)
Join(ss, sep) ==
    IF ss = <<>> THEN ""
    ELSE IF Len(ss) = 1 THEN ss[1]
    ELSE ss[1] \o sep \o Join(Tail(ss), sep)

\* String.prototype.trim
RECURSIVE TrimLeft(_)
TrimLeft(s) ==
    IF Len(s) > 0 /\ IsSpace(CharAt(s, 1)) THEN TrimLeft(SubSeq(s, 2, Len(s))) ELSE s

RECURSIVE TrimRight(_)
TrimRight(s) ==
    IF Len(s) > 0 /\ IsSpace(CharAt(s, Len(s)))
    THEN TrimRight(SubSeq(s, 1, Len(s) - 1)) ELSE s

Trim(s) == TrimRight(TrimLeft(s))

\* the characters of s that belong to alphabet a, in order
RECURSIVE KeepChars(_, _, _)
KeepChars(s, a, i) ==
    IF i > Len(s) THEN ""
    ELSE (IF IsIn(CharAt(s, i), a) THEN CharAt(s, i) ELSE "")
         \o KeepChars(s, a, i + 1)

\* Set.prototype.add on an insertion-ordered Set
SetAdd(seq, x) == IF x \in Range(seq) THEN seq ELSE Append(seq, x)

RECURSIVE SetAddAll(_, _)
SetAddAll(seq, xs) ==
    IF xs = <<>> THEN seq ELSE SetAddAll(SetAdd(seq, Head(xs)), Tail(xs))

NoDuplicates(seq) == \A i, j \in 1..Len(seq) : seq[i] = seq[j] => i = j

---------------------------------------------------------------------------
(* Regular expressions.  A pattern is a sequence of items, each a character *)
(* class with a greedy quantifier; matching backtracks as the JavaScript    *)
(* engine does: the leftmost start, then the longest repetition of each     *)
(* item, from left to right, that lets the rest of the pattern match.       *)

Letters == Upper \o Lower
Spaces == " "

\* class{min,max}, class{min,}, and the literal characters of a string
Rep(class, min, max) ==
    [class |-> CharsOf(class), min |-> min, max |-> max, open |-> FALSE]
AtLeast(class, min) ==
    [class |-> CharsOf(class), min |-> min, max |-> min, open |-> TRUE]
One(class) == Rep(class, 1, 1)
Opt(class) == Rep(class, 0, 1)
Lit(str) == [i \in 1..Len(str) |-> One(CharAt(str, i))]

\* the greatest element of a non-empty set of numbers
Greatest(S) == CHOOSE i \in S : \A j \in S : j <= i

\* how many characters of the class follow from position i on, at most cap
RunLength(s, i, class, cap) ==
    Least({j \in i..(i + cap - 1) : CharAt(s, j) \notin class} \cup {i + cap}) - i

\* the position after the match of items[k..] that starts at i; 0 when none
RECURSIVE MatchEnd(_, _, _, _)
MatchEnd(s, i, items, k) ==
    IF k > Len(items) THEN i
    ELSE LET it == items[k]
             left == Len(s) - i + 1
             cap == IF it.open \/ left < it.max THEN left ELSE it.max
             run == RunLength(s, i, it.class, cap)
             ends == {<<n, MatchEnd(s, i + n, items, k + 1)>> : n \in it.min..run}
             ok == {r \in ends : r[2] > 0}
         IN  IF ok = {} THEN 0
             ELSE (CHOOSE r \in ok : \A q \in ok : q[1] <= r[1])[2]

\* the same for a pattern with alternatives, tried in order
RECURSIVE MatchEndAlt(_, _, _, _)
MatchEndAlt(s, i, alts, a) ==
    IF a > Len(alts) THEN 0
    ELSE LET e == MatchEnd(s, i, alts[a], 1)
         IN  IF e > 0 THEN e ELSE MatchEndAlt(s, i, alts, a + 1)

\* String.prototype.match with a global pattern: the matches from position
\* from on, left to right, without overlap
RECURSIVE MatchAll(_, _, _)
MatchAll(s, alts, from) ==
    LET starts == {i \in from..Len(s) : MatchEndAlt(s, i, alts, 1) > 0}
    IN  IF starts = {} THEN <<>>
        ELSE LET i == Least(starts)
                 e == MatchEndAlt(s, i, alts, 1)
             IN  <<SubSeq(s, i, e - 1)>> \o MatchAll(s, alts, e)

\* String.prototype.replace with a global pattern and a replacement string
RECURSIVE ReplaceMatches(_, _, _)
ReplaceMatches(s, alts, r) ==
    LET starts == {i \in 1..Len(s) : MatchEndAlt(s, i, alts, 1) > 0}
    IN  IF starts = {} THEN s
        ELSE LET i == Least(starts)
                 e == MatchEndAlt(s, i, alts, 1)
             IN  SubSeq(s, 1, i - 1) \o r
                 \o ReplaceMatches(SubSeq(s, e, Len(s)), alts, r)

\* RegExp.prototype.test of a pattern anchored at the start, ignoring case
TestPrefixIgnoreCase(s, items) == MatchEnd(ToLower(s), 1, items, 1) > 0

\* String.prototype.split(sep)[0] for a one-character separator
BeforeFirst(s, sep) ==
    LET k == IndexOf(s, sep) IN IF k = 0 THEN s ELSE SubSeq(s, 1, k - 1)

---------------------------------------------------------------------------
(* The web the program talks to.  A page is what cheerio.load sees in the   *)
(* body of a response: the parsed elements, with attribute values as they  *)
(* are written in the markup.  Render gives the raw body they come from.   *)

\* a page with nothing in it
EmptyPage ==
    [generator |-> <<>>, links |-> <<>>, bodyClass |-> <<>>, chunks |-> <<>>,
     anchors |-> <<>>, dataEmails |-> <<>>, forms |-> <<>>]

Form(action, method, emailField, messageField) ==
    [action |-> action, method |-> method,
     hasEmailField |-> emailField, hasMessageField |-> messageField]

AcmeHome ==
    [EmptyPage EXCEPT
        !.generator = <<"WordPress 6.1">>,
        !.links = <<"/wp-content/themes/acme/style.css">>,
        !.bodyClass = <<"home page">>,
        !.chunks = <<"Welcome to Acme", "info@realcompany.com", "+1 (555) 123-4567">>,
        !.anchors = <<"mailto:info@realcompany.com?subject=Hello",
                      "https://facebook.com/acme-old", "https://twitter.com/acme",
                      "https://www.facebook.com/acme", "/blog">>,
        !.forms = <<Form(<<"/send">>, <<>>, TRUE, TRUE)>>]

AcmeContact ==
    [EmptyPage EXCEPT
        !.links = <<"/wp-includes/css/dist/block.css">>,
        !.chunks = <<"Write to sales@acme.com", "john [at] acme [dot] com",
                     "555-1234", "555-123">>,
        !.anchors = <<"mailto:sales@acme.com", "mailto:broken@",
                      "https://linkedin.com/company/acme">>,
        !.dataEmails = <<"not-an-email", "jane@acme.com">>,
        !.forms = <<Form(<<"/newsletter">>, <<"post">>, TRUE, FALSE),
                    Form(<<>>, <<"GET">>, TRUE, TRUE)>>]

AcmeAbout ==
    [EmptyPage EXCEPT
        !.chunks = <<"noreply@acme.com", "No-Reply@acme.com", "info@realcompany.com",
                     "help@acme.com">>,
        !.anchors = <<"mailto:jane@acme.com", "https://facebook.com/acme-team">>]

PlainHome == [EmptyPage EXCEPT !.chunks = <<"Hello world">>]

RestHome ==
    [EmptyPage EXCEPT
        !.links = <<"/assets/wp-style.css">>,
        !.chunks = <<"support@rest.io", "+123456", "12-34-56", "admin@example.com",
                     "test@rest.io", "1234567">>,
        !.anchors = <<"mailto:user@example.com", "mailto:info@realcompany.com">>,
        !.dataEmails = <<"example@rest.io", "">>]

ThemeHome ==
    [EmptyPage EXCEPT
        !.links = <<"/assets/css/main.css", "/assets/wp-style.css">>,
        !.bodyClass = <<"home wp-custom-logo">>,
        !.chunks = <<"a..b@theme.dev", "+12 345 6", "(555) 123 4567">>]

KlassHome ==
    [EmptyPage EXCEPT
        !.links = <<"/static/site.css">>,
        !.bodyClass = <<"page wp-embed-responsive">>,
        !.chunks = <<"mail x@y.z1 or owner@klass.net">>]

GenHome ==
    [EmptyPage EXCEPT
        !.generator = <<"Word&#80;ress 6.4">>,
        !.chunks = <<"Site under construction">>]

ShopHome ==
    [EmptyPage EXCEPT
        !.links = <<"/assets/wp-style.css">>,
        !.bodyClass = <<"WP-Shop">>,
        !.chunks = <<"Built with Elementor and WooCommerce on WordPress",
                     "shop@shop.biz">>]

WixHome ==
    [EmptyPage EXCEPT
        !.generator = <<"Wix.com Website Builder">>,
        !.bodyClass = <<"WP-Theme Wordpres">>,
        !.chunks = <<"contact@wixsite.biz">>]

\* what each URL of the web serves; a URL outside it does not answer
Web ==
    [u \in {"https://acme.com", "https://acme.com/contact", "https://acme.com/about",
            "https://plain.org", "https://rest.io", "http://theme.dev",
            "https://klass.net", "https://gen.co", "https://shop.biz",
            "https://wixsite.biz"} |->
        CASE u = "https://acme.com" -> AcmeHome
          [] u = "https://acme.com/contact" -> AcmeContact
          [] u = "https://acme.com/about" -> AcmeAbout
          [] u = "https://plain.org" -> PlainHome
          [] u = "https://rest.io" -> RestHome
          [] u = "http://theme.dev" -> ThemeHome
          [] u = "https://klass.net" -> KlassHome
          [] u = "https://gen.co" -> GenHome
          [] u = "https://shop.biz" -> ShopHome
          [] u = "https://wixsite.biz" -> WixHome]

\* the status each site answers on its REST posts endpoint
ApiStatus ==
    [u \in {"https://acme.com", "https://plain.org", "https://rest.io",
            "http://theme.dev", "https://klass.net", "https://gen.co",
            "https://shop.biz", "https://wixsite.biz"} |->
        CASE u = "https://acme.com" -> 200
          [] u = "https://rest.io" -> 200
          [] u = "https://gen.co" -> 200
          [] u = "https://klass.net" -> 204
          [] u = "https://wixsite.biz" -> 403
          [] OTHER -> 404]

\* the URLs a caller passes in, with and without a protocol
Urls ==
    {"acme.com", "plain.org", "https://rest.io", "http://theme.dev", "klass.net",
     "gen.co", "shop.biz", "wixsite.biz", "down.net"}

Failed == [ok |-> FALSE]

\* axios.get of a page: rejects on a network error, a timeout or a non-2xx status
Fetch(url, fault) ==
    IF fault \/ url \notin DOMAIN Web THEN Failed
    ELSE [ok |-> TRUE, data |-> Web[url]]

\* axios.get of the REST endpoint of url: the status, or a rejection
Probe(url, fault) ==
    IF fault \/ url \notin DOMAIN ApiStatus THEN Failed
    ELSE IF ApiStatus[url] < 200 \/ ApiStatus[url] >= 300 THEN Failed
    ELSE [ok |-> TRUE, status |-> ApiStatus[url]]

\* the lists of at most n elements of S
RECURSIVE ListsUpTo(_, _)
ListsUpTo(S, n) ==
    IF n = 0 THEN {<<>>}
    ELSE LET shorter == ListsUpTo(S, n - 1)
         IN  shorter \cup {Append(l, x) : l \in shorter, x \in S}

\* String.prototype.replace(t, r) with a string pattern: the first occurrence
ReplaceFirst(s, t, r) ==
    LET k == IndexOf(s, t)
    IN  IF k = 0 THEN s
        ELSE SubSeq(s, 1, k - 1) \o r \o SubSeq(s, k + Len(t), Len(s))

RECURSIVE ReplaceAll(_, _, _)
ReplaceAll(s, t, r) ==
    LET k == IndexOf(s, t)
    IN  IF k = 0 THEN s
        ELSE SubSeq(s, 1, k - 1) \o r \o ReplaceAll(SubSeq(s, k + Len(t), Len(s)), t, r)

\* the value cheerio's attr() gives for an attribute written as raw
AttrValue(raw) == ReplaceAll(ReplaceAll(raw, "&#80;", "P"), "&amp;", "&")

RenderAttr(name, value) ==
    IF value = <<>> THEN "" ELSE " " \o name \o "=\"" \o value[1] \o "\""

RECURSIVE RenderEach(_, _, _)
RenderEach(before, items, after) ==
    IF items = <<>> THEN ""
    ELSE before \o Head(items) \o after \o RenderEach(before, Tail(items), after)

RenderForm(f) ==
    "<form" \o RenderAttr("action", f.action) \o RenderAttr("method", f.method) \o ">"
    \o (IF f.hasEmailField THEN "<input type=\"email\">" ELSE "<input type=\"text\">")
    \o (IF f.hasMessageField THEN "<textarea></textarea>" ELSE "")
    \o "</form>"

RECURSIVE RenderForms(_)
RenderForms(fs) ==
    IF fs = <<>> THEN "" ELSE RenderForm(Head(fs)) \o RenderForms(Tail(fs))

\* $.text() of the page
PageText(page) == Join(page.chunks, "; ")

\* response.data: the raw body the page is parsed from
Render(page) ==
    "<html><head>"
    \o (IF page.generator = <<>> THEN ""
        ELSE "<meta name=\"generator\"" \o RenderAttr("content", page.generator) \o ">")
    \o RenderEach("<link rel=\"stylesheet\" href=\"", page.links, "\">")
    \o "</head><body" \o RenderAttr("class", page.bodyClass) \o ">"
    \o PageText(page)
    \o RenderEach("<a href=\"", page.anchors, "\"></a>")
    \o RenderEach("<span data-email=\"", page.dataEmails, "\"></span>")
    \o RenderForms(page.forms)
    \o "</body></html>"

---------------------------------------------------------------------------
(* WordPressDetector *)

Null == "null"

indicators ==
    <<"/wp-content/", "/wp-includes/", "/wp-admin/", "wp-json", "wordpress",
      "wp_enqueue_script", "wp-embed.min.js", "generator.*wordpress", "wp-rocket",
      "elementor", "woocommerce">>

\* the url with a protocol ensured
EnsureProtocol(url) ==
    IF ~StartsWith(url, "http://") /\ ~StartsWith(url, "https://")
    THEN "https://" \o url ELSE url

Verdict(isWordPress, indicator, confidence) ==
    [isWordPress |-> isWordPress, indicator |-> indicator, confidence |-> confidence]

\* a generator check that never fires
MutGeneratorCheck(page) == FALSE

\* $('meta[name="generator"]').attr('content') mentions wordpress
GeneratorCheck(page) ==
    /\ page.generator # <<>>
    /\ AttrValue(page.generator[1]) # ""
    /\ Includes(ToLower(AttrValue(page.generator[1])), "wordpress")

\* $('link[href*="wp-"]').length > 0
LinkCheck(page) ==
    \E i \in 1..Len(page.links) : Includes(AttrValue(page.links[i]), "wp-")

\* $('body').attr('class') includes 'wp-' or 'wordpress'
BodyClassCheck(page) ==
    LET bodyClasses == IF page.bodyClass = <<>> THEN "" ELSE AttrValue(page.bodyClass[1])
    IN  Includes(bodyClasses, "wp-") \/ Includes(bodyClasses, "wordpress")

ApiUrl(url) == url \o "/wp-json/wp/v2/posts?per_page=1"

\* what a call of isWordPressSite comes to: whether it threw, the verdict it
\* returned, the checks it evaluated and the requests it issued, in order
Returned(v, cs, rs) ==
    [raised |-> FALSE, verdict |-> v, checks |-> cs, requests |-> rs, error |-> ""]

Thrown(rs, message) ==
    [raised |-> TRUE, verdict |-> Verdict(FALSE, Null, "unknown"), checks |-> <<>>,
     requests |-> rs, error |-> message]

\* only the last matching indicator is reported
MutFirstIndicatorFrom(htmlContent, k) ==
    LET hits == {j \in k..Len(indicators) : Includes(htmlContent, ToLower(indicators[j]))}
    IN  IF hits = {} THEN 0 ELSE CHOOSE j \in hits : \A h \in hits : h <= j

\* the loop over this.indicators: the index of the first indicator that the
\* lower-cased body includes, from k on; 0 when none does
RECURSIVE FirstIndicatorFrom(_, _)
FirstIndicatorFrom(htmlContent, k) ==
    IF k > Len(indicators) THEN 0
    ELSE IF Includes(htmlContent, ToLower(indicators[k])) THEN k
    ELSE FirstIndicatorFrom(htmlContent, k + 1)

\* any answer of the probe counts
MutApiCheck(probe) == probe.ok

\* the REST probe answered with status 200
ApiCheck(probe) == probe.ok /\ probe.status = 200

\* the probe's failure is not caught: it aborts the call
MutProbeAndLater(url, page, probe) ==
    IF ~probe.ok
    THEN Thrown(<<url, ApiUrl(url)>>, "Failed to check WordPress status for " \o url)
    ELSE IF ApiCheck(probe)
    THEN Returned(Verdict(TRUE, "WordPress REST API", "high"), <<1, 2, 3>>,
                  <<url, ApiUrl(url)>>)
    ELSE IF LinkCheck(page)
    THEN Returned(Verdict(TRUE, "WordPress assets in link tags", "medium"),
                  <<1, 2, 3, 4>>, <<url, ApiUrl(url)>>)
    ELSE IF BodyClassCheck(page)
    THEN Returned(Verdict(TRUE, "WordPress CSS classes", "medium"),
                  <<1, 2, 3, 4, 5>>, <<url, ApiUrl(url)>>)
    ELSE Returned(Verdict(FALSE, Null, "high"), <<1, 2, 3, 4, 5>>,
                  <<url, ApiUrl(url)>>)

\* the REST probe and the checks after it (checks 3, 4 and 5, and the default)
ProbeAndLater(url, page, probe) ==
    IF ApiCheck(probe)
    THEN Returned(Verdict(TRUE, "WordPress REST API", "high"), <<1, 2, 3>>,
                  <<url, ApiUrl(url)>>)
    ELSE IF LinkCheck(page)
    THEN Returned(Verdict(TRUE, "WordPress assets in link tags", "medium"),
                  <<1, 2, 3, 4>>, <<url, ApiUrl(url)>>)
    ELSE IF BodyClassCheck(page)
    THEN Returned(Verdict(TRUE, "WordPress CSS classes", "medium"),
                  <<1, 2, 3, 4, 5>>, <<url, ApiUrl(url)>>)
    ELSE Returned(Verdict(FALSE, Null, "high"), <<1, 2, 3, 4, 5>>,
                  <<url, ApiUrl(url)>>)

\* One call isWordPressSite(url).  pFault, qFault: a transient failure hits the
\* page request, the probe request (when it is issued).
isWordPressSite(url0, pFault, qFault) ==
    LET url == EnsureProtocol(url0)
        response == Fetch(url, pFault)
    IN  IF ~response.ok
        THEN Thrown(<<url>>, "Failed to check WordPress status for " \o url)
        ELSE
        LET page == response.data
            html == Render(page)
            htmlContent == ToLower(html)
            k == FirstIndicatorFrom(htmlContent, 1)
        IN  IF k > 0
            THEN Returned(Verdict(TRUE, indicators[k], "high"), <<1>>, <<url>>)
            ELSE IF GeneratorCheck(page)
            THEN Returned(Verdict(TRUE, "meta generator tag", "high"), <<1, 2>>, <<url>>)
            ELSE ProbeAndLater(url, page, Probe(url, qFault))

\* the outcome of every call the model can make
Outcome ==
    [u \in Urls \cup {"rest.io", "theme.dev"} |-> [p \in BOOLEAN |-> [q \in BOOLEAN |-> isWordPressSite(u, p, q)]]]

\* the transient failures a call can meet with n already injected: a failure of
\* the probe is a choice only when the probe is issued
FaultChoices(url0, n) ==
    {f \in [p : BOOLEAN, q : BOOLEAN] :
        /\ n + (IF f.p THEN 1 ELSE 0) + (IF f.q THEN 1 ELSE 0) <= MaxFaults
        /\ f.q => /\ ~f.p
                  /\ Len(Outcome[url0][FALSE][FALSE].requests) = 2}

FaultCount(f) == (IF f.p THEN 1 ELSE 0) + (IF f.q THEN 1 ELSE 0)

\* what one call adds to the log of requests and pauses
RequestEvents(out) ==
    [i \in 1..Len(out.requests) |-> IF i = 1 THEN "fetch" ELSE "probe"]

NoCall == [called |-> FALSE]
NoRecord == [returned |-> FALSE]
NoOptions == [given |-> FALSE]

\* contactInfo as extractContactInfo creates it
NoInfo ==
    [emails |-> <<>>, phones |-> <<>>, socialMedia |-> [k \in {} |-> ""],
     contactForms |-> <<>>]

\* no search is going on
SearcherIdle ==
    /\ gOptions = NoOptions /\ gCall = NoOptions /\ gBlocked = {} /\ gQueries = <<>>
    /\ gQ = 0 /\ gPage = 0 /\ gResults = <<>> /\ gReturned = NoCall /\ gAll = <<>>
    /\ gLog = <<>> /\ gOut = <<>> /\ gPc = "idle"

\* no prospecting run is going on
ProspectorIdle ==
    /\ pOptions = NoOptions /\ pEntry = NoCall /\ pPipeline = NoRecord /\ pLog = <<>>
    /\ pExports = NoCall /\ pPc = "idle"

\* no command is running
CliIdle ==
    /\ cOptions = NoOptions /\ cFile = <<>> /\ cUrls = <<>> /\ cValid = <<>>
    /\ cPc = "idle" /\ cExit = -1 /\ cDir = "none" /\ cWrites = <<>>

\* the verdict pushed for a url whose detection threw: confidence is lost
MutCaughtVerdict(url, message) ==
    [url |-> url, isWordPress |-> FALSE, indicator |-> Null, confidence |-> "high",
     error |-> message]

\* the verdict checkWordPressBatch pushes for a url whose detection threw
CaughtVerdict(url, message) ==
    [url |-> url, isWordPress |-> FALSE, indicator |-> Null, confidence |-> "unknown",
     error |-> message]

\* one iteration of the loop of checkWordPressBatch
CheckNext ==
    /\ dI < Len(dUrls)
    /\ \E f \in FaultChoices(dUrls[dI + 1], faults) :
        LET url == dUrls[dI + 1]
            out == Outcome[url][f.p][f.q]
        IN  /\ det' = [called |-> TRUE, url |-> url, pFault |-> f.p, qFault |-> f.q,
                       out |-> out]
            /\ faults' = faults + FaultCount(f)
            /\ IF ~out.raised
               THEN /\ dResults' = Append(dResults, [url |-> url] @@ out.verdict)
                    /\ dLog' = dLog \o RequestEvents(out) \o <<"pause">>
               ELSE /\ dResults' = Append(dResults, CaughtVerdict(url, out.error))
                    /\ dLog' = dLog \o RequestEvents(out)
    /\ dI' = dI + 1
    /\ UNCHANGED <<dUrls, eVars, sVars, gVars, pVars, cVars>>

\* checkWordPressBatch(urls) for a list of urls
InitDetect ==
    /\ dUrls \in ListsUpTo(Urls, MaxBatch)
    /\ dI = 0 /\ dResults = <<>> /\ dLog = <<>> /\ det = NoCall
    /\ eUrl = "" /\ eI = 0 /\ eInfo = NoInfo /\ eLog = <<>> /\ eRecord = NoRecord
    /\ ePc = "idle"
    /\ sOptions = NoOptions /\ sCall = NoOptions /\ sUrls = <<>> /\ sI = 0
    /\ sResults = <<>> /\ sDetection = NoCall /\ sPc = "idle" /\ sHist = <<>>
    /\ SearcherIdle /\ ProspectorIdle
    /\ CliIdle
    /\ faults = 0

NextDetect == CheckNext

SpecDetect == InitDetect /\ [][NextDetect]_vars
---------------------------------------------------------------------------
(* EmailExtractor *)

LocalChars == Letters \o Digits \o "._%+-"
DomainChars == Letters \o Digits \o ".-"
AnySpaces == AtLeast(Spaces, 0)

\* /[a-zA-Z0-9._%+-]+@[a-zA-Z0-9.-]+\.[a-zA-Z]{2,}/g
emailRegex ==
    << <<AtLeast(LocalChars, 1), One("@"), AtLeast(DomainChars, 1), One("."),
         AtLeast(Letters, 2)>> >>

commonPages ==
    <<"", "/contact", "/contact-us", "/about", "/about-us", "/team", "/staff",
      "/privacy", "/privacy-policy", "/terms", "/legal", "/imprint", "/impressum">>

\* the characters validator allows in an unquoted local part
UserChars == CharsOf(Letters \o Digits \o "!#$%&'*+-/=?^_{|}~")

\* the characters validator allows in a domain name, and in its last label
HostChars == CharsOf(Letters \o Digits \o "-")
TldChars == CharsOf(Letters)

\* validator.isEmail with its default options: one @, a dot-separated local part
\* of allowed characters, and a fully qualified domain with a letters-only TLD
IsEmail(str) ==
    LET at == {i \in 1..Len(str) : CharAt(str, i) = "@"}
    IN  /\ Cardinality(at) = 1
        /\ LET k == Least(at)
               user == SubSeq(str, 1, k - 1)
               domain == SubSeq(str, k + 1, Len(str))
               dots == {i \in 1..Len(domain) : CharAt(domain, i) = "."}
               tld == SubSeq(domain, Greatest(dots) + 1, Len(domain))
               Edge(part, c) ==
                   \/ Len(part) = 0
                   \/ CharAt(part, 1) = c
                   \/ CharAt(part, Len(part)) = c
           IN  /\ Len(user) > 0 /\ Len(user) <= 64
               /\ \A i \in 1..Len(user) : CharAt(user, i) \in UserChars \cup {"."}
               /\ ~Edge(user, ".") /\ ~Includes(user, "..")
               /\ Len(domain) <= 254
               /\ dots # {}
               /\ \A i \in 1..Len(domain) : CharAt(domain, i) \in HostChars \cup {"."}
               /\ ~Edge(domain, ".") /\ ~Includes(domain, "..")
               /\ ~Edge(domain, "-") /\ ~Includes(domain, "-.") /\ ~Includes(domain, ".-")
               /\ Len(tld) >= 2
               /\ \A i \in 1..Len(tld) : CharAt(tld, i) \in TldChars

\* extractEmailsFromText: the matches of the pattern that are emails, once each
extractEmailsFromText(text) ==
    SetAddAll(<<>>, SelectSeq(MatchAll(text, emailRegex, 1), IsEmail))

\* the attribute values of the elements a selector finds, in document order
MailtoHrefs(page) ==
    SelectSeq([i \in 1..Len(page.anchors) |-> AttrValue(page.anchors[i])],
              LAMBDA href : StartsWith(href, "mailto:"))

\* href.replace('mailto:', '').split('?')[0]
MailtoAddress(href) == BeforeFirst(ReplaceFirst(href, "mailto:", ""), "?")

\* every mailto target is kept, valid or not
MutMailtoEmails(page) ==
    [i \in 1..Len(MailtoHrefs(page)) |-> MailtoAddress(MailtoHrefs(page)[i])]

\* the emails the mailto links of a page give
MailtoEmails(page) ==
    SelectSeq([i \in 1..Len(MailtoHrefs(page)) |-> MailtoAddress(MailtoHrefs(page)[i])],
              IsEmail)

\* the emails the data-email attributes of a page give
DataEmails(page) ==
    SelectSeq([i \in 1..Len(page.dataEmails) |-> AttrValue(page.dataEmails[i])], IsEmail)

\* local [at] domain [dot] tld, with any spaces around the brackets and the words
obfuscatedRegex ==
    << <<AtLeast(LocalChars, 1), AnySpaces, One("["), AnySpaces>> \o Lit("at")
       \o <<AnySpaces, One("]"), AnySpaces, AtLeast(DomainChars, 1), AnySpaces,
            One("["), AnySpaces>> \o Lit("dot")
       \o <<AnySpaces, One("]"), AnySpaces, AtLeast(Letters, 2)>> >>

atRegex ==
    << <<AnySpaces, One("["), AnySpaces>> \o Lit("at") \o <<AnySpaces, One("]"), AnySpaces>> >>

dotRegex ==
    << <<AnySpaces, One("["), AnySpaces>> \o Lit("dot") \o <<AnySpaces, One("]"), AnySpaces>> >>

\* the three replace calls that turn an obfuscated match into an address
Deobfuscate(obfuscated) ==
    ReplaceMatches(
        ReplaceMatches(ReplaceMatches(obfuscated, atRegex, "@"), dotRegex, "."),
        << <<One(Spaces)>> >>, "")

\* the emails the obfuscated patterns of a page's text give
ObfuscatedEmails(page) ==
    LET found == MatchAll(PageText(page), obfuscatedRegex, 1)
    IN  SelectSeq([i \in 1..Len(found) |-> Deobfuscate(found[i])], IsEmail)

\* extractEmailsFromPage(url), given the answer to its own request of the page
extractEmailsFromPage(response) ==
    IF ~response.ok THEN <<>>
    ELSE LET page == response.data
             textEmails == extractEmailsFromText(PageText(page))
         IN  SetAddAll(SetAddAll(SetAddAll(SetAddAll(<<>>, textEmails),
                 MailtoEmails(page)), DataEmails(page)), ObfuscatedEmails(page))

\* /(\+?\d{1,4}[-.\s]?)?\(?\d{1,4}\)?[-.\s]?\d{1,4}[-.\s]?\d{1,9}/g: with the
\* optional group first, without it second
phoneRegex ==
    LET sep == Opt("-. ")
        rest == <<Opt("("), Rep(Digits, 1, 4), Opt(")"), sep, Rep(Digits, 1, 4), sep,
                  Rep(Digits, 1, 9)>>
    IN  << <<Opt("+"), Rep(Digits, 1, 4), sep>> \o rest, rest >>

\* phone.replace(/[^\d+]/g, '').length >= 7
KeepsPhone(phone) == Len(KeepChars(phone, Digits \o "+", 1)) >= 7

\* the phones a page adds: the matches that pass the length test, trimmed
PagePhones(page) ==
    LET kept == SelectSeq(MatchAll(PageText(page), phoneRegex, 1), KeepsPhone)
    IN  [i \in 1..Len(kept) |-> Trim(kept[i])]

\* the anchors the social selector finds, in document order
SocialHrefs(page) ==
    SelectSeq([i \in 1..Len(page.anchors) |-> AttrValue(page.anchors[i])],
              LAMBDA href : \/ Includes(href, "facebook.com")
                            \/ Includes(href, "twitter.com")
                            \/ Includes(href, "linkedin.com")
                            \/ Includes(href, "instagram.com"))

Platform(href) ==
    IF Includes(href, "facebook") THEN "facebook"
    ELSE IF Includes(href, "twitter") THEN "twitter"
    ELSE IF Includes(href, "linkedin") THEN "linkedin"
    ELSE IF Includes(href, "instagram") THEN "instagram" ELSE "other"

\* obj[key] = value
Put(obj, key, value) ==
    [k \in DOMAIN obj \cup {key} |-> IF k = key THEN value ELSE obj[k]]

\* the first link of a platform is kept
RECURSIVE MutPutSocial(_, _)
MutPutSocial(socialMedia, hrefs) ==
    IF hrefs = <<>> THEN socialMedia
    ELSE MutPutSocial(IF Platform(Head(hrefs)) \in DOMAIN socialMedia THEN socialMedia
                      ELSE Put(socialMedia, Platform(Head(hrefs)), Head(hrefs)),
                      Tail(hrefs))

\* contactInfo.socialMedia[platform] = href, for each selected anchor in document order
RECURSIVE PutSocial(_, _)
PutSocial(socialMedia, hrefs) ==
    IF hrefs = <<>> THEN socialMedia
    ELSE PutSocial(Put(socialMedia, Platform(Head(hrefs)), Head(hrefs)), Tail(hrefs))

\* the contact forms of a page: the forms with an email and a message field
PageForms(url, page) ==
    LET found == SelectSeq(page.forms, LAMBDA f : f.hasEmailField /\ f.hasMessageField)
    IN  [i \in 1..Len(found) |->
            [url |-> url,
             action |-> IF found[i].action = <<>> THEN "" ELSE AttrValue(found[i].action[1]),
             method |-> IF found[i].method = <<>> \/ AttrValue(found[i].method[1]) = ""
                        THEN "POST" ELSE AttrValue(found[i].method[1])]]

urlsToCheck(baseUrl) == [i \in 1..Len(commonPages) |-> baseUrl \o commonPages[i]]

\* what every page of the web gives, computed once
PageEmails == [u \in DOMAIN Web |-> extractEmailsFromPage(Fetch(u, FALSE))]
PagePhonesOf == [u \in DOMAIN Web |-> PagePhones(Web[u])]

\* the body of the try block for one page: contactInfo after the page
AfterPage(info, url, page, emails) ==
    [emails |-> SetAddAll(info.emails, emails),
     phones |-> SetAddAll(info.phones, PagePhonesOf[url]),
     socialMedia |-> PutSocial(info.socialMedia, SocialHrefs(page)),
     contactForms |-> info.contactForms \o PageForms(url, page)]

\* a failed page ends the loop
MutAfterFailure(i) == [i |-> Len(commonPages), pc |-> "loop"]

\* the catch block of the loop: the failure is logged and the loop continues
\* with the next page
AfterFailure(i) == [i |-> i + 1, pc |-> "loop"]

FetchEvent(by, url, ok) == [kind |-> "fetch", by |-> by, url |-> url, ok |-> ok]
PauseEvent == [kind |-> "pause"]

\* one iteration of the loop of extractContactInfo: the page is requested, and
\* when it answers it is requested again by extractEmailsFromPage
ExtractPage ==
    /\ ePc = "loop"
    /\ eI < Len(commonPages)
    /\ LET url == urlsToCheck(EnsureProtocol(eUrl))[eI + 1]
       IN  \E f \in {g \in [p : BOOLEAN, q : BOOLEAN] :
                       /\ faults + FaultCount(g) <= MaxFaults
                       /\ (g.p \/ g.q) => url \in DOMAIN Web
                       /\ ~(g.p /\ g.q)} :
             LET response == Fetch(url, f.p)
             IN  /\ faults' = faults + FaultCount(f)
                 /\ IF response.ok
                    THEN /\ eInfo' = AfterPage(eInfo, url, response.data,
                                         IF f.q THEN <<>> ELSE PageEmails[url])
                         /\ eLog' = eLog \o <<FetchEvent("extractContactInfo", url, TRUE),
                                 FetchEvent("extractEmailsFromPage", url, ~f.q),
                                 PauseEvent>>
                         /\ eI' = eI + 1
                         /\ ePc' = ePc
                    ELSE /\ eInfo' = eInfo
                         /\ eLog' = eLog \o <<FetchEvent("extractContactInfo", url, FALSE)>>
                         /\ eI' = AfterFailure(eI).i
                         /\ ePc' = AfterFailure(eI).pc
    /\ UNCHANGED <<eUrl, eRecord, dVars, gVars, pVars, cVars, sVars>>

\* the end of the loop: extractContactInfo returns
ExtractReturn ==
    /\ ePc = "loop"
    /\ eI >= Len(commonPages)
    /\ ePc' = "returned"
    /\ UNCHANGED <<eUrl, eI, eInfo, eLog, eRecord, dVars, gVars, pVars, cVars, sVars, faults>>

\* the patterns of filterEmails, each anchored at the start and ignoring case
excludePatterns ==
    <<Lit("no") \o <<Opt("-")>> \o Lit("reply"),
      Lit("donotreply"),
      Lit("noreply"),
      Lit("support"),
      Lit("help"),
      Lit("info@example"),
      Lit("test@"),
      Lit("admin@example"),
      Lit("example@"),
      Lit("@example")>>

Excluded(email) ==
    \E k \in 1..Len(excludePatterns) : TestPrefixIgnoreCase(email, excludePatterns[k])

\* filterEmails: the emails that match none of the patterns
filterEmails(emails) == SelectSeq(emails, LAMBDA email : ~Excluded(email))

\* extractFromWordPressSite after extractContactInfo has returned: the record
ExtractFinish ==
    /\ ePc = "returned"
    /\ eRecord' = [returned |-> TRUE, url |-> eUrl,
                   emails |-> filterEmails(eInfo.emails),
                   phones |-> eInfo.phones,
                   socialMedia |-> eInfo.socialMedia,
                   contactForms |-> eInfo.contactForms,
                   extractedAt |-> "now"]
    /\ ePc' = "done"
    /\ UNCHANGED <<eUrl, eI, eInfo, eLog, dVars, gVars, pVars, cVars, sVars, faults>>

\* extractFromWordPressSite(url) for a url
InitExtract ==
    /\ dUrls = <<>> /\ dI = 0 /\ dResults = <<>> /\ dLog = <<>> /\ det = NoCall
    /\ eUrl \in Urls
    /\ eI = 0 /\ eInfo = NoInfo /\ eLog = <<>> /\ eRecord = NoRecord
    /\ ePc = "loop"
    /\ sOptions = NoOptions /\ sCall = NoOptions /\ sUrls = <<>> /\ sI = 0
    /\ sResults = <<>> /\ sDetection = NoCall /\ sPc = "idle" /\ sHist = <<>>
    /\ SearcherIdle /\ ProspectorIdle
    /\ CliIdle
    /\ faults = 0

NextExtract == ExtractPage \/ ExtractReturn \/ ExtractFinish

SpecExtract == InitExtract /\ [][NextExtract]_vars

---------------------------------------------------------------------------
(* WordPressScraper *)

\* this.options as the constructor builds it from its argument
ScraperOptions(onlyWordPress) ==
    [given |-> TRUE, respectful |-> TRUE, onlyWordPress |-> onlyWordPress]

\* batchOptions = { ...this.options, ...options }
Merge(base, over) ==
    IF ~over.given THEN base
    ELSE [k \in DOMAIN base \cup DOMAIN over |-> IF k \in DOMAIN over THEN over[k] ELSE base[k]]

\* the record scrapeWebsite returns from its catch block
Placeholder(url, message) ==
    [url |-> url, isWordPress |-> FALSE, emails |-> <<>>, phones |-> <<>>,
     socialMedia |-> [k \in {} |-> ""], contactForms |-> <<>>, error |-> message,
     extractedAt |-> "now"]

\* a url that failed leaves no record
MutPushFailure(results, url, message) == results

\* scrapeBatch with the placeholder scrapeWebsite returned for a failed url:
\* the placeholder is truthy, so it is pushed
PushFailure(results, url, message) == Append(results, Placeholder(url, message))

\* scrapeBatch pauses after urls[i] unless it is the last one:
\* batchOptions.respectful && i < urls.length - 1   (i counts from 0)
Pauses(batchOptions, i, urls) == batchOptions.respectful /\ i < Len(urls) - 1

\* scrapeWebsite skips the url: not a WordPress site, and only those are wanted
Skips(options, wpDetection) == ~wpDetection.isWordPress /\ options.onlyWordPress

\* scrapeWebsite, step 1: the detection of urls[i], and what follows from it
ScrapeDetect ==
    /\ sPc = "detect"
    /\ sI < Len(sUrls)
    /\ \E f \in FaultChoices(sUrls[sI + 1], faults) :
        LET url == sUrls[sI + 1]
            out == Outcome[url][f.p][f.q]
        IN  /\ faults' = faults + FaultCount(f)
            /\ sHist' = Append(sHist,
                   [url |-> url, raised |-> out.raised,
                    skipped |-> ~out.raised /\ Skips(sOptions, out.verdict),
                    paused |-> /\ out.raised \/ Skips(sOptions, out.verdict)
                               /\ Pauses(Merge(sOptions, sCall), sI, sUrls)])
            /\ IF out.raised
               THEN /\ sResults' = PushFailure(sResults, url, out.error)
                    /\ sI' = sI + 1
                    /\ UNCHANGED <<sDetection, sPc, eVars>>
               ELSE IF Skips(sOptions, out.verdict)
               THEN /\ sI' = sI + 1
                    /\ UNCHANGED <<sResults, sDetection, sPc, eVars>>
               ELSE /\ sDetection' = [called |-> TRUE] @@ out.verdict
                    /\ sPc' = "extract"
                    /\ eUrl' = url /\ eI' = 0 /\ eInfo' = NoInfo /\ eLog' = <<>>
                    /\ eRecord' = NoRecord /\ ePc' = "loop"
                    /\ UNCHANGED <<sResults, sI>>
    /\ UNCHANGED <<sOptions, sCall, sUrls, dVars, gVars, pVars, cVars>>

\* scrapeWebsite, step 2 done: the contact info is combined with the detection
\* and scrapeBatch pushes the result
ScrapeCombine ==
    /\ sPc = "extract"
    /\ ePc \in {"done", "raised"}
    /\ sResults' =
          IF ePc = "raised"
          THEN PushFailure(sResults, eUrl, "Failed to extract contact info from " \o eUrl)
          ELSE Append(sResults,
                   [url |-> eRecord.url, emails |-> eRecord.emails,
                    phones |-> eRecord.phones, socialMedia |-> eRecord.socialMedia,
                    contactForms |-> eRecord.contactForms,
                    extractedAt |-> eRecord.extractedAt,
                    isWordPress |-> sDetection.isWordPress,
                    indicator |-> sDetection.indicator,
                    confidence |-> sDetection.confidence])
    /\ sHist' = [sHist EXCEPT ![sI + 1].paused = Pauses(Merge(sOptions, sCall), sI, sUrls)]
    /\ sI' = sI + 1
    /\ sPc' = "detect"
    /\ ePc' = "idle"
    /\ UNCHANGED <<sOptions, sCall, sUrls, sDetection, eUrl, eI, eInfo, eLog,
                   eRecord, dVars, gVars, pVars, cVars, faults>>

\* the loop of scrapeBatch is over: results is returned
ScrapeReturn ==
    /\ sPc = "detect"
    /\ sI = Len(sUrls)
    /\ sPc' = "done"
    /\ UNCHANGED <<sOptions, sCall, sUrls, sI, sResults, sDetection, sHist, eVars, dVars, gVars, pVars, cVars,
                   faults>>

\* the urls given to the scraper in the model
ScrapeUrls == {"acme.com", "plain.org", "down.net"}

\* scrapeBatch(urls, options) on a scraper built with or without onlyWordPress
InitScrape ==
    /\ dUrls = <<>> /\ dI = 0 /\ dResults = <<>> /\ dLog = <<>> /\ det = NoCall
    /\ eUrl = "" /\ eI = 0 /\ eInfo = NoInfo /\ eLog = <<>> /\ eRecord = NoRecord
    /\ ePc = "idle"
    /\ sOptions \in {ScraperOptions(b) : b \in BOOLEAN}
    /\ sCall \in {NoOptions, [given |-> TRUE, onlyWordPress |-> FALSE]}
    /\ sUrls \in ListsUpTo(ScrapeUrls, MaxBatch)
    /\ sI = 0 /\ sResults = <<>> /\ sDetection = NoCall /\ sPc = "detect" /\ sHist = <<>>
    /\ SearcherIdle /\ ProspectorIdle
    /\ CliIdle
    /\ faults = 0

NextScrape ==
    \/ ScrapeDetect
    \/ ExtractPage
    \/ ExtractReturn
    \/ ExtractFinish
    \/ ScrapeCombine
    \/ ScrapeReturn

SpecScrape == InitScrape /\ [][NextScrape]_vars

---------------------------------------------------------------------------
(* GoogleSearcher: urls *)

\* the first position from i on of a character of cs in s; Len(s) + 1 when none
FirstOf(s, cs, i) ==
    LET at == {k \in i..Len(s) : CharAt(s, k) \in cs}
    IN  IF at = {} THEN Len(s) + 1 ELSE Least(at)

\* String.prototype.endsWith
EndsWith(s, t) == Len(t) <= Len(s) /\ SubSeq(s, Len(s) - Len(t) + 1, Len(s)) = t

\* the schemes whose urls hold an authority after "://"
SpecialSchemes == {"http", "https", "ftp"}

\* a string that new URL() rejects
NotAUrl == [ok |-> FALSE]

\* new URL(str), the host and the port: the authority without its userinfo
HostPort(authority) ==
    LET ats == {k \in 1..Len(authority) : CharAt(authority, k) = "@"}
    IN  IF ats = {} THEN authority
        ELSE SubSeq(authority, Greatest(ats) + 1, Len(authority))

\* new URL(str), the parts: the path goes from e up to q, the query from q up
\* to h, the fragment from h on
UrlRecord(str, scheme, host, port, e, q, h) ==
    IF \/ scheme \notin SpecialSchemes
       \/ host = ""
       \/ \E k \in 1..Len(port) : ~IsIn(CharAt(port, k), Digits)
    THEN NotAUrl
    ELSE [ok |-> TRUE, protocol |-> scheme \o ":", hostname |-> ToLower(host),
          port |-> port, pathname |-> IF e = q THEN "/" ELSE SubSeq(str, e, q - 1),
          search |-> SubSeq(str, q, h - 1), hash |-> SubSeq(str, h, Len(str))]

\* new URL(str), from the authority on: c is the place of the ":" in hostport
ParseHost(str, scheme, hostport, c, e, q) ==
    UrlRecord(str, scheme,
              IF c = 0 THEN hostport ELSE SubSeq(hostport, 1, c - 1),
              IF c = 0 THEN "" ELSE SubSeq(hostport, c + 1, Len(hostport)),
              e, q, FirstOf(str, {"#"}, q))

\* new URL(str), after the scheme: the authority goes from a up to e
ParseAuthority(str, scheme, a, e) ==
    ParseHost(str, scheme, HostPort(SubSeq(str, a, e - 1)),
              IndexOf(HostPort(SubSeq(str, a, e - 1)), ":"),
              e, FirstOf(str, {"?", "#"}, e))

\* new URL(str), p being the place of "://" in str
ParseFrom(str, p) ==
    IF p = 0 THEN NotAUrl
    ELSE ParseAuthority(str, ToLower(SubSeq(str, 1, p - 1)), p + 3,
                        FirstOf(str, {"/", "?", "#"}, p + 3))

\* new URL(str), for the strings the model meets: absolute urls of the form
\* scheme://[userinfo@]host[:port][path][?query][#fragment], without dot
\* segments, and strings with no scheme, which are rejected.  The scheme and
\* the host come out in lower case and an empty path is "/".
ParseUrl(str) == ParseFrom(str, IndexOf(str, "://"))

\* cleanUrl, the result for a url that parses
CleanParsed(cleaned, pathname) ==
    IF EndsWith(cleaned, "/") /\ pathname # "/"
    THEN SubSeq(cleaned, 1, Len(cleaned) - 1)
    ELSE cleaned

\* cleanUrl, urlObj being new URL(url)
CleanFrom(url, urlObj) ==
    IF ~urlObj.ok THEN url
    ELSE CleanParsed(urlObj.protocol \o "//" \o urlObj.hostname \o urlObj.pathname,
                     urlObj.pathname)

\* cleanUrl: protocol, host name and path of the url, without one trailing slash
\* unless the path is the root; the url itself when it does not parse.  (The
\* tracking parameters it deletes are in the query, which is dropped anyway.)
cleanUrl(url) == CleanFrom(url, ParseUrl(url))

excludeDomains ==
    <<"google.com", "youtube.com", "facebook.com", "twitter.com", "linkedin.com",
      "instagram.com", "pinterest.com", "reddit.com", "wikipedia.org", "amazon.com",
      "ebay.com", "craigslist.org">>

\* isValidUrl, the tests on the lower-cased host name and the protocol
ValidHost(hostname, protocol) ==
    /\ ~\E k \in 1..Len(excludeDomains) :
            \/ Includes(hostname, excludeDomains[k])
            \/ EndsWith(hostname, excludeDomains[k])
    /\ StartsWith(protocol, "http")
    /\ Includes(hostname, ".")
    /\ ~Includes(hostname, "localhost")

\* isValidUrl, urlObj being new URL(url)
ValidParsed(urlObj) == urlObj.ok /\ ValidHost(ToLower(urlObj.hostname), urlObj.protocol)

\* isValidUrl
isValidUrl(url) == ValidParsed(ParseUrl(url))

RECURSIVE Split(_, _)

\* split, k being the place of the separator in s
SplitAt(s, sep, k) ==
    IF k = 0 THEN <<s>>
    ELSE <<SubSeq(s, 1, k - 1)>> \o Split(SubSeq(s, k + 1, Len(s)), sep)

\* String.prototype.split, for a separator of one character
Split(s, sep) == SplitAt(s, sep, IndexOf(s, sep))

\* the characters the percent codes of the model stand for
PercentCodes ==
    [c \in {"20", "23", "25", "26", "2B", "2F", "3A", "3D", "3F"} |->
        CASE c = "20" -> " " [] c = "23" -> "#" [] c = "25" -> "%" [] c = "26" -> "&"
          [] c = "2B" -> "+" [] c = "2F" -> "/" [] c = "3A" -> ":" [] c = "3D" -> "="
          [] c = "3F" -> "?"]

RECURSIVE PercentDecode(_)

\* percent-decoding, k being the place of the first "%" in s
PercentDecodeAt(s, k) ==
    IF k = 0 THEN s
    ELSE IF k + 2 <= Len(s) /\ SubSeq(s, k + 1, k + 2) \in DOMAIN PercentCodes
         THEN SubSeq(s, 1, k - 1) \o PercentCodes[SubSeq(s, k + 1, k + 2)]
              \o PercentDecode(SubSeq(s, k + 3, Len(s)))
    ELSE SubSeq(s, 1, k) \o PercentDecode(SubSeq(s, k + 1, Len(s)))

\* percent-decoding, as URLSearchParams does it: a "%" that no code follows stays
PercentDecode(s) == PercentDecodeAt(s, IndexOf(s, "%"))

\* a name or value of a query string, decoded: "+" is a space
DecodeComponent(s) == PercentDecode(ReplaceAll(s, "+", " "))

\* a pair of a query string, k being the place of the "=" in it
ParamAt(part, k) ==
    IF k = 0 THEN [name |-> DecodeComponent(part), value |-> ""]
    ELSE [name |-> DecodeComponent(SubSeq(part, 1, k - 1)),
          value |-> DecodeComponent(SubSeq(part, k + 1, Len(part)))]

\* the pairs of the parts between the "&" of a query string
ParamsOf(parts) == [i \in 1..Len(parts) |-> ParamAt(parts[i], IndexOf(parts[i], "="))]

\* new URLSearchParams(init): the name/value pairs of init, in order
URLSearchParams(init) ==
    ParamsOf(SelectSeq(Split(IF StartsWith(init, "?") THEN SubSeq(init, 2, Len(init))
                             ELSE init, "&"),
                       LAMBDA part : part # ""))

\* URLSearchParams.prototype.get: the first value of the name, or null
Get(params, name) ==
    LET at == {i \in 1..Len(params) : params[i].name = name}
    IN  IF at = {} THEN Null ELSE params[Least(at)].value

---------------------------------------------------------------------------
(* GoogleSearcher: result pages *)

\* a result block of a page: the classes of its div, the href attributes of
\* the links in it, in document order, and the texts the parser reads
Block(classes, hrefs, h3, snippet) ==
    [classes |-> classes, hrefs |-> hrefs, h3 |-> h3, heading |-> "",
     snippet |-> snippet, sncf |-> ""]

wordpressQueries ==
    <<"site:*/wp-content/", "site:*/wp-includes/", "site:*/wp-admin/",
      "\"powered by wordpress\"", "\"wordpress theme\"", "\"wp-content/themes\"",
      "\"wp-content/plugins\"", "inurl:wp-content", "inurl:wp-includes",
      "filetype:xml \"wordpress\"", "\"wp-json/wp/v2\"">>

\* this.industryQueries.agencies; the other four industries have four queries too
agenciesQueries ==
    <<"\"web design agency\" \"powered by wordpress\"",
      "\"digital agency\" inurl:wp-content",
      "\"marketing agency\" site:*/wp-admin/",
      "\"creative agency\" \"wordpress theme\"">>

\* this.industryQueries[industry]: undefined for a name that is not an industry
industryQueries(industry) == IF industry = "agencies" THEN agenciesQueries ELSE <<>>

\* options.resultsPerPage || 10
resultsPerPage == 10

\* the first result page of 'site:*/wp-content/'
ContentPage1 ==
    <<Block({"g"}, <<"https://acme.com/about?utm_source=google#team", "/cache">>,
            "  Acme - About  ", "We build things ..."),
      Block({"g", "tF2Cxc"}, <<"https://plain.org/">>, "", ""),
      Block({"g"}, <<"/url?q=https%3A%2F%2Fklass.net%2Fshop%3Fa%3D1&amp;sa=U&amp;ved=2ah">>,
            "Klass shop", ""),
      Block({"g"}, <<"https://www.youtube.com/watch?v=1">>, "Video", ""),
      Block({"hlcw0c"}, <<"https://Acme.com/About">>, "Acme again", ""),
      Block({"g"}, <<>>, "No link", ""),
      Block({"g"}, <<"/search?q=related">>, "Related", ""),
      Block({"other"}, <<"https://gen.co/">>, "Not a result", "")>>

\* its second page
ContentPage2 ==
    <<Block({"g"}, <<"https://rest.io/blog//">>, "Rest blog", ""),
      Block({"g"}, <<"https://acme.com/about/">>, "Acme", ""),
      Block({"tF2Cxc"}, <<"http://theme.dev:8080/x?y=1">>, "Theme", "")>>

\* its third page
ContentPage3 == <<Block({"g"}, <<"https://gen.co">>, "Gen", "")>>

\* the first result page of '"powered by wordpress"'
PoweredPage1 ==
    <<Block({"g"}, <<"https://acme.com/">>, "Acme", ""),
      Block({"g"}, <<"https://down.net/">>, "Down", "")>>

\* the first result page of the second base query: sites the first query
\* found as well
RepeatPage1 ==
    <<Block({"g"}, <<"https://acme.com/about">>, "About Acme", ""),
      Block({"g"}, <<"https://plain.org/">>, "Plain", "")>>

\* the first result page of the first agencies query
AgencyPage1 == <<Block({"g"}, <<"https://shop.biz/">>, "Shop", "")>>

\* a query of the caller's own
CustomQuery == "wordpress plumber"

CustomPage1 ==
    <<Block({"g"}, <<"https://wixsite.biz/">>, "Wix", ""),
      Block({"g"}, <<"https://plain.org/contact">>, "Plain", "")>>

\* a keyword of the caller, and the query searchByKeywords makes of it
Keyword == "plumber"
KeywordQuery(keyword) == "\"" \o keyword \o "\" \"powered by wordpress\""

KeywordPage1 ==
    <<Block({"g"}, <<"https://plain.org/">>, "Plain", ""),
      Block({"g"}, <<"https://acme.com/contact">>, "Acme", "")>>

\* the request buildGoogleSearchUrl describes: the query and the offset (num,
\* hl, safe and filter are the same in every request)
SearchRequest(query, start) == [q |-> query, start |-> start]

\* what the search engine answers a request with, when it answers
ResultPage(request) ==
    LET q == request.q
        n == request.start
    IN  CASE q = wordpressQueries[1] /\ n = 0 -> ContentPage1
          [] q = wordpressQueries[1] /\ n = resultsPerPage -> ContentPage2
          [] q = wordpressQueries[1] /\ n = 2 * resultsPerPage -> ContentPage3
          [] q = wordpressQueries[2] /\ n = 0 -> RepeatPage1
          [] q = wordpressQueries[4] /\ n = 0 -> PoweredPage1
          [] q = agenciesQueries[1] /\ n = 0 -> AgencyPage1
          [] q = CustomQuery /\ n = 0 -> CustomPage1
          [] q = KeywordQuery(Keyword) /\ n = 0 -> KeywordPage1
          [] OTHER -> <<>>

\* a value that an if or an || takes for true: not null, not the empty string
Truthy(v) == v # Null /\ v # ""

\* parseGoogleResults, the url a link gives: href.substring(6) is the href from
\* its 7th character on
HrefUrl(href) ==
    IF Truthy(href) /\ StartsWith(href, "/url?q=")
    THEN Get(URLSearchParams(SubSeq(href, 7, Len(href))), "q")
    ELSE IF Truthy(href) /\ StartsWith(href, "http") THEN href
    ELSE Null

\* parseGoogleResults, the url of a block: that of its first link
BlockUrl(block) ==
    IF block.hrefs = <<>> THEN Null ELSE HrefUrl(AttrValue(block.hrefs[1]))

\* a || b for strings
OrElse(a, b) == IF Truthy(a) THEN a ELSE b

\* parseGoogleResults, the push: cleaned is cleanUrl(url)
ResultAt(block, cleaned) ==
    IF Truthy(cleaned) /\ isValidUrl(cleaned)
    THEN <<[url |-> cleaned,
            title |-> OrElse(Trim(block.h3), OrElse(Trim(block.heading), "No title")),
            description |-> OrElse(Trim(block.snippet),
                                   OrElse(Trim(block.sncf), "No description")),
            source |-> "google_search"]>>
    ELSE <<>>

\* parseGoogleResults, if (url)
ResultOf(block, url) == IF Truthy(url) THEN ResultAt(block, cleanUrl(url)) ELSE <<>>

\* parseGoogleResults, for one block: the results it pushes, none or one
BlockResults(block) == ResultOf(block, BlockUrl(block))

resultSelectors == <<"g", "tF2Cxc", "hlcw0c">>

RECURSIVE EachBlock(_, _)
EachBlock(blocks, selector) ==
    IF blocks = <<>> THEN <<>>
    ELSE (IF selector \in Head(blocks).classes THEN BlockResults(Head(blocks)) ELSE <<>>)
         \o EachBlock(Tail(blocks), selector)

\* parseGoogleResults: selector after selector, the blocks in document order
parseGoogleResults(html) ==
    EachBlock(html, resultSelectors[1]) \o EachBlock(html, resultSelectors[2])
        \o EachBlock(html, resultSelectors[3])

\* the last record of each url is the one kept
RECURSIVE MutDeduplicateFrom(_, _)
MutDeduplicateFrom(results, k) ==
    IF k > Len(results) THEN <<>>
    ELSE (IF \E j \in (k + 1)..Len(results) :
                ToLower(results[j].url) = ToLower(results[k].url)
          THEN <<>> ELSE <<results[k]>>) \o MutDeduplicateFrom(results, k + 1)

\* deduplicateResults: the filter, from the k-th record on, with the keys seen
RECURSIVE DeduplicateFrom(_, _, _)
DeduplicateFrom(results, k, seen) ==
    IF k > Len(results) THEN <<>>
    ELSE LET key == ToLower(results[k].url)
         IN  IF key \in seen THEN DeduplicateFrom(results, k + 1, seen)
             ELSE <<results[k]>> \o DeduplicateFrom(results, k + 1, seen \cup {key})

MutDeduplicateResults(results) == MutDeduplicateFrom(results, 1)

deduplicateResults(results) == DeduplicateFrom(results, 1, {})

---------------------------------------------------------------------------
(* GoogleSearcher: searchGoogle, findWordPressSites, searchByKeywords *)

\* most pages a search goes through (maxPages) in the model
MaxPages == 3

\* an options object with no property
NoProperties == [k \in {} |-> ""]

Has(options, key) == key \in DOMAIN options

\* a numeric option that is given and is not 0 (0 counts as not given in a test)
IsSet(options, key) == Has(options, key) /\ options[key] # 0

\* searchOptions = { ...this.options, ...options }, its maxPages
MaxPagesOf(searcherOptions, options) ==
    IF Has(options, "maxPages") THEN options.maxPages ELSE searcherOptions.maxPages

\* findWordPressSites: queriesToUse
queriesToUse(options) ==
    wordpressQueries
        \o (IF Has(options, "industry") THEN industryQueries(options.industry) ELSE <<>>)
        \o (IF Has(options, "customQueries") THEN options.customQueries ELSE <<>>)

\* searchByKeywords: queries
KeywordQueries(keywords) == [i \in 1..Len(keywords) |-> KeywordQuery(keywords[i])]

\* Array.prototype.slice(0, n)
Slice(seq, n) == SubSeq(seq, 1, IF n < Len(seq) THEN n ELSE Len(seq))

SearchFetch(request, ok) == [kind |-> "fetch", q |-> request.q, start |-> request.start,
                             ok |-> ok]
SearchPause(by) == [kind |-> "pause", by |-> by]

\* a failed page is skipped and the next page is requested
MutAfterPageFailure == "page"

\* searchGoogle, the catch of a page: break
AfterPageFailure == "returning"

\* searchGoogle, one turn of the page loop: the request, and either the parsed
\* results and the pause, or the break
SearchPage ==
    /\ gPc = "page"
    /\ gPage < MaxPagesOf(gOptions, gCall.options)
    /\ LET maxPages == MaxPagesOf(gOptions, gCall.options)
           request == SearchRequest(gQueries[gQ + 1], gPage * resultsPerPage)
       IN  IF request \in gBlocked
           THEN /\ gLog' = Append(gLog, SearchFetch(request, FALSE))
                /\ gPc' = AfterPageFailure
                /\ gPage' = IF AfterPageFailure = "page" THEN gPage + 1 ELSE gPage
                /\ UNCHANGED gResults
           ELSE /\ gResults' = gResults \o parseGoogleResults(ResultPage(request))
                /\ gLog' = gLog \o <<SearchFetch(request, TRUE)>>
                            \o (IF gPage < maxPages - 1 THEN <<SearchPause("searchGoogle")>>
                                ELSE <<>>)
                /\ gPage' = gPage + 1
                /\ UNCHANGED gPc
    /\ UNCHANGED <<gOptions, gCall, gBlocked, gQueries, gQ, gReturned, gAll, gOut,
                   dVars, eVars, sVars, pVars, cVars, faults>>

\* findWordPressSites, the test after a query: the cap is reached
CapReached(options, allResults) ==
    IsSet(options, "maxResults") /\ Len(allResults) >= options.maxResults

\* the page loop is over: searchGoogle returns the deduplicated results, and the
\* caller adds them to allResults, then breaks, pauses or goes to its next query
SearchReturn ==
    /\ gPc = "returning" \/ (gPc = "page" /\ gPage >= MaxPagesOf(gOptions, gCall.options))
    /\ LET results == deduplicateResults(gResults)
           all == gAll \o results
           last == gQ + 1 = Len(gQueries)
           capped == gCall.kind = "findWordPressSites" /\ CapReached(gCall.options, all)
       IN  /\ gReturned' = [called |-> TRUE, query |-> gQueries[gQ + 1],
                            results |-> results]
           /\ gAll' = all
           /\ gLog' = gLog \o
                 (IF gCall.kind = "searchByKeywords" THEN <<SearchPause("searchByKeywords")>>
                  ELSE IF ~capped /\ ~last THEN <<SearchPause("findWordPressSites")>>
                  ELSE <<>>)
           /\ gPc' = IF capped \/ last THEN "final" ELSE "page"
    /\ gQ' = gQ + 1
    /\ gPage' = 0
    /\ gResults' = <<>>
    /\ UNCHANGED <<gOptions, gCall, gBlocked, gQueries, gOut, dVars, eVars, sVars, pVars, cVars,
                   faults>>

\* the list is not cut
MutFinalResults(options, uniqueResults) == uniqueResults

\* findWordPressSites: finalResults
FinalResults(options, uniqueResults) ==
    IF IsSet(options, "maxResults") THEN Slice(uniqueResults, options.maxResults)
    ELSE uniqueResults

\* what the call returns once its queries are done
SearchOutcome(call, allResults) ==
    IF call.kind = "findWordPressSites"
    THEN FinalResults(call.options, deduplicateResults(allResults))
    ELSE deduplicateResults(allResults)

\* findWordPressSites / searchByKeywords return
FindReturn ==
    /\ gPc = "final"
    /\ gOut' = SearchOutcome(gCall, gAll)
    /\ gPc' = "done"
    /\ UNCHANGED <<gOptions, gCall, gBlocked, gQueries, gQ, gPage, gResults, gReturned,
                   gAll, gLog, dVars, eVars, sVars, pVars, cVars, faults>>

\* the sets of requests that fail in a run of the model: none, a first page,
\* a second page, a later query, a custom query, or every request
AllQueries ==
    Range(wordpressQueries) \cup Range(agenciesQueries)
        \cup {CustomQuery, KeywordQuery(Keyword)}

BlockedChoices ==
    {{},
     {SearchRequest(wordpressQueries[1], 0)},
     {SearchRequest(wordpressQueries[1], resultsPerPage)},
     {SearchRequest(wordpressQueries[4], 0), SearchRequest(agenciesQueries[1], 0)},
     {SearchRequest(CustomQuery, 0), SearchRequest(KeywordQuery(Keyword), 0)},
     {SearchRequest(q, n * resultsPerPage) : q \in AllQueries, n \in 0..MaxPages}}

\* the options objects with or without a property of one of the values
Maybe(key, values) == {NoProperties} \cup {[k \in {key} |-> v] : v \in values}

\* the options findWordPressSites is called with in the model
FindOptions ==
    {i @@ c @@ m @@ p :
        i \in Maybe("industry", {"agencies", "plumbing"}),
        c \in Maybe("customQueries", {<<CustomQuery>>}),
        m \in Maybe("maxResults", {0, 1, 3, 4}),
        p \in Maybe("maxPages", {1})}

FindCall(options) == [kind |-> "findWordPressSites", options |-> options]
KeywordsCall(keywords, options) ==
    [kind |-> "searchByKeywords", keywords |-> keywords, options |-> options]

\* the searcher at the start of a call, before the first request
SearchStarts(call) ==
    /\ gCall = call
    /\ gQueries = (IF call.kind = "findWordPressSites" THEN queriesToUse(call.options)
                   ELSE KeywordQueries(call.keywords))
    /\ gQ = 0 /\ gPage = 0 /\ gResults = <<>> /\ gReturned = NoCall /\ gAll = <<>>
    /\ gLog = <<>> /\ gOut = <<>>
    /\ gPc = (IF call.kind = "searchByKeywords" /\ call.keywords = <<>> THEN "final"
              ELSE "page")

\* findWordPressSites(options) or searchByKeywords(keywords, options) on a
\* searcher built with some maxPages
InitSearch ==
    /\ dUrls = <<>> /\ dI = 0 /\ dResults = <<>> /\ dLog = <<>> /\ det = NoCall
    /\ eUrl = "" /\ eI = 0 /\ eInfo = NoInfo /\ eLog = <<>> /\ eRecord = NoRecord
    /\ ePc = "idle"
    /\ sOptions = NoOptions /\ sCall = NoOptions /\ sUrls = <<>> /\ sI = 0
    /\ sResults = <<>> /\ sDetection = NoCall /\ sPc = "idle" /\ sHist = <<>>
    /\ gOptions \in {[given |-> TRUE, maxPages |-> n] : n \in 1..MaxPages}
    /\ gBlocked \in BlockedChoices
    /\ \E call \in {FindCall(o) : o \in FindOptions}
                   \cup {KeywordsCall(k, NoProperties) : k \in {<<>>, <<Keyword>>}} :
          SearchStarts(call)
    /\ ProspectorIdle
    /\ CliIdle
    /\ faults = 0

NextSearch == SearchPage \/ SearchReturn \/ FindReturn

SpecSearch == InitSearch /\ [][NextSearch]_vars

---------------------------------------------------------------------------
(* WordPressProspector *)

\* searchByIndustry: options.maxPages || 3
industryMaxPages == 3

\* options.maxSearchResults || 100
defaultMaxSearchResults == 100

\* extractDomains, one result: urlObj is new URL(url)
HostOf(url, urlObj) == IF urlObj.ok THEN urlObj.hostname ELSE url

\* extractDomains: the host name of each result's url, or the url when it does
\* not parse
extractDomains(results) ==
    [i \in 1..Len(results) |-> HostOf(results[i].url, ParseUrl(results[i].url))]

\* urls.map(url => ({ url, isWordPress: 'not_validated' }))
NotValidated(urls) ==
    [i \in 1..Len(urls) |-> [url |-> urls[i], isWordPress |-> "not_validated"]]

\* site.isWordPress === true, for a value that is a boolean or a string
StrictlyTrue(v) == ToString(v) = "TRUE"

\* site.isWordPress taken as a condition: false and '' are falsy
IsTruthy(v) == ToString(v) \notin {"FALSE", ToString("")}

\* results.filter(site => site.isWordPress)
OnlyWordPress(results) == SelectSeq(results, LAMBDA site : IsTruthy(site.isWordPress))

\* a number written in decimal
RECURSIVE NatToString(_)
NatToString(n) ==
    IF n < 10 THEN CharAt(Digits, n + 1)
    ELSE NatToString(n \div 10) \o CharAt(Digits, (n % 10) + 1)

\* (num / den).toFixed(1): the quotient rounded to a tenth, as a string
ToFixed1(num, den) ==
    LET tenths == (20 * num + den) \div (2 * den)
    IN  NatToString(tenths \div 10) \o "." \o NatToString(tenths % 10)

\* with no site validated the rate is 100
MutDetectionRate(confirmed, validated) ==
    IF validated > 0 THEN ToFixed1(confirmed * 100, validated) ELSE 100

\* generateSummary: wordpressDetectionRate
DetectionRate(confirmed, validated) ==
    IF validated > 0 THEN ToFixed1(confirmed * 100, validated) ELSE 0

\* generateSummary: avgEmailsPerSite
AverageEmails(totalEmails, sitesWithContactInfo) ==
    IF sitesWithContactInfo > 0 THEN ToFixed1(totalEmails, sitesWithContactInfo) ELSE 0

RECURSIVE SumOfEmails(_)
SumOfEmails(contactData) ==
    IF contactData = <<>> THEN 0
    ELSE (IF Has(Head(contactData), "emails") THEN Len(Head(contactData).emails) ELSE 0)
         + SumOfEmails(Tail(contactData))

\* generateSummary
generateSummary(pipeline) ==
    LET confirmed == Len(SelectSeq(pipeline.wordpressSites,
                                   LAMBDA site : StrictlyTrue(site.isWordPress)))
        withEmails == Len(SelectSeq(pipeline.contactData,
                                    LAMBDA site : /\ Has(site, "emails")
                                                  /\ Len(site.emails) > 0))
        totalEmails == SumOfEmails(pipeline.contactData)
    IN  [totalSearchResults |-> Len(pipeline.searchResults),
         sitesValidated |-> Len(pipeline.wordpressSites),
         confirmedWordPressSites |-> confirmed,
         sitesWithContactInfo |-> withEmails,
         totalEmails |-> totalEmails,
         wordpressDetectionRate |-> DetectionRate(confirmed, Len(pipeline.wordpressSites)),
         avgEmailsPerSite |-> AverageEmails(totalEmails, withEmails),
         uniqueEmails |->
             Cardinality(UNION {IF Has(pipeline.contactData[i], "emails")
                                THEN Range(pipeline.contactData[i].emails) ELSE {} :
                                   i \in 1..Len(pipeline.contactData)})]

\* findAndScrapeWordPressSites: the pipeline object at the start
NewPipeline ==
    [searchResults |-> <<>>, wordpressSites |-> <<>>, contactData |-> <<>>,
     summary |-> NoProperties]

StageEvent(stage, urls) == [stage |-> stage, urls |-> urls]

\* this.scraper.scrapeBatch(urls, options) is called
StartScrape(urls, options) ==
    /\ sUrls' = urls /\ sCall' = options
    /\ sI' = 0 /\ sResults' = <<>> /\ sDetection' = NoCall /\ sPc' = "detect"
    /\ sHist' = <<>>
    /\ UNCHANGED sOptions

\* the options of the pipeline's scrapeBatch calls (the delay apart)
AllSites == [given |-> TRUE, onlyWordPress |-> FALSE]

\* findAndScrapeWordPressSites from step 3 on: the extraction is started, or
\* the summary is made and the pipeline is returned
ExtractOrSummarize(pipeline, validatedSites) ==
    IF pOptions.extractEmails /\ validatedSites # <<>>
    THEN /\ pPipeline' = pipeline
         /\ pPc' = "extract"
         /\ pLog' = Append(pLog, StageEvent("Extract", validatedSites))
         /\ StartScrape(validatedSites, AllSites)
    ELSE /\ pPipeline' = [pipeline EXCEPT !.summary = generateSummary(pipeline)]
         /\ pPc' = "returned"
         /\ pLog' = Append(pLog, StageEvent("Summarize", <<>>))
         /\ UNCHANGED sVars

\* the search is over. findAndScrapeWordPressSites: steps 1 and 2 up to the
\* call of scrapeBatch, or to the return; searchByKeywords likewise
AfterDiscover ==
    /\ pPc = "discover"
    /\ gPc = "done"
    /\ LET urls == extractDomains(gOut)
       IN  IF pEntry.kind = "searchByKeywords"
           THEN IF gOut = <<>>
                THEN /\ pPipeline' = [searchResults |-> <<>>, wordpressSites |-> <<>>,
                                      contactData |-> <<>>]
                     /\ pPc' = "returned"
                     /\ UNCHANGED <<pLog, sVars>>
                ELSE IF pOptions.extractEmails
                THEN /\ pPipeline' = [searchResults |-> gOut, wordpressSites |-> <<>>,
                                      contactData |-> <<>>]
                     /\ pPc' = "extract"
                     /\ pLog' = Append(pLog, StageEvent("Extract", urls))
                     /\ StartScrape(urls, NoOptions)
                ELSE /\ pPipeline' = [searchResults |-> gOut,
                                      wordpressSites |-> NotValidated(urls),
                                      contactData |-> <<>>]
                     /\ pPc' = "returned"
                     /\ UNCHANGED <<pLog, sVars>>
           ELSE LET pipeline == [NewPipeline EXCEPT !.searchResults = gOut]
                IN  IF gOut = <<>>
                    THEN /\ pPipeline' = pipeline
                         /\ pPc' = "returned"
                         /\ UNCHANGED <<pLog, sVars>>
                    ELSE IF pOptions.validateWordPress
                    THEN /\ pPipeline' = pipeline
                         /\ pPc' = "validate"
                         /\ pLog' = Append(pLog, StageEvent("Validate", urls))
                         /\ StartScrape(urls, AllSites)
                    ELSE ExtractOrSummarize(
                             [pipeline EXCEPT !.wordpressSites = NotValidated(urls)], urls)
    /\ UNCHANGED <<pOptions, pEntry, pExports, dVars, eVars, gVars, cVars, faults>>

\* the validating scrapeBatch is over: the sites found to be WordPress are kept
AfterValidate ==
    /\ pPc = "validate"
    /\ sPc = "done"
    /\ LET wordpressSites == OnlyWordPress(sResults)
       IN  ExtractOrSummarize([pPipeline EXCEPT !.wordpressSites = wordpressSites],
                              [i \in 1..Len(wordpressSites) |-> wordpressSites[i].url])
    /\ UNCHANGED <<pOptions, pEntry, pExports, dVars, eVars, gVars, cVars, faults>>

\* the extracting scrapeBatch is over: findAndScrapeWordPressSites makes the
\* summary and returns; searchByKeywords returns its three lists
AfterExtract ==
    /\ pPc = "extract"
    /\ sPc = "done"
    /\ IF pEntry.kind = "searchByKeywords"
       THEN /\ pPipeline' = [pPipeline EXCEPT !.wordpressSites = OnlyWordPress(sResults),
                                              !.contactData = sResults]
            /\ UNCHANGED pLog
       ELSE LET pipeline == [pPipeline EXCEPT !.contactData = sResults]
            IN  /\ pPipeline' = [pipeline EXCEPT !.summary = generateSummary(pipeline)]
                /\ pLog' = Append(pLog, StageEvent("Summarize", <<>>))
    /\ pPc' = "returned"
    /\ UNCHANGED <<pOptions, pEntry, pExports, dVars, eVars, sVars, gVars, cVars, faults>>

\* the metrics the summary report prints
summaryMetrics ==
    <<"totalSearchResults", "sitesValidated", "confirmedWordPressSites",
      "wordpressDetectionRate", "sitesWithContactInfo", "totalEmails", "uniqueEmails",
      "avgEmailsPerSite">>

\* exportSummaryReport: the values printed in the report, a property the
\* summary lacks being printed as undefined; it throws when there is no summary
SummaryReport(pipeline) ==
    IF ~Has(pipeline, "summary") THEN [threw |-> TRUE]
    ELSE [threw |-> FALSE,
          printed |-> [i \in 1..Len(summaryMetrics) |->
                          IF Has(pipeline.summary, summaryMetrics[i])
                          THEN ToString(pipeline.summary[summaryMetrics[i]])
                          ELSE "undefined"]]

\* exportResults(pipeline), called with what the entry point returned
ExportResults ==
    /\ pPc = "returned"
    /\ LET report == SummaryReport(pPipeline)
       IN  /\ pExports' = [called |-> TRUE,
                           searchResults |-> pPipeline.searchResults # <<>>,
                           contacts |-> pPipeline.contactData # <<>>,
                           summary |-> report]
           /\ pPc' = IF report.threw THEN "failed" ELSE "exported"
    /\ pLog' = Append(pLog, StageEvent("Export", <<>>))
    /\ UNCHANGED <<pOptions, pEntry, pPipeline, dVars, eVars, sVars, gVars, cVars, faults>>

\* the entry points of a run: the general search, searchByIndustry, the search
\* with custom queries, searchByKeywords
Entries ==
    {[kind |-> "findAndScrapeWordPressSites", searchOptions |-> NoProperties],
     [kind |-> "searchByIndustry",
      searchOptions |-> [industry |-> "agencies", maxPages |-> industryMaxPages]],
     [kind |-> "findAndScrapeWordPressSites",
      searchOptions |-> [customQueries |-> <<CustomQuery>>]],
     [kind |-> "searchByKeywords", keywords |-> <<Keyword>>]}

\* the search call an entry point makes:
\* findWordPressSites({ ...searchOptions, maxResults: this.options.maxSearchResults })
\* or searchByKeywords(keywords, options)
SearchCallOf(entry, options) ==
    IF entry.kind = "searchByKeywords" THEN KeywordsCall(entry.keywords, NoProperties)
    ELSE FindCall([maxResults |-> options.maxSearchResults] @@ entry.searchOptions)

\* a run of the prospector, built with some options, from one of its entry
\* points to the export; no request fails in passing, the sites and the
\* searches that do not answer apart
InitPipeline ==
    /\ dUrls = <<>> /\ dI = 0 /\ dResults = <<>> /\ dLog = <<>> /\ det = NoCall
    /\ eUrl = "" /\ eI = 0 /\ eInfo = NoInfo /\ eLog = <<>> /\ eRecord = NoRecord
    /\ ePc = "idle"
    /\ sOptions \in {ScraperOptions(b) : b \in BOOLEAN}
    /\ sCall = NoOptions /\ sUrls = <<>> /\ sI = 0
    /\ sResults = <<>> /\ sDetection = NoCall /\ sPc = "idle" /\ sHist = <<>>
    /\ pOptions \in [validateWordPress : BOOLEAN, extractEmails : BOOLEAN,
                     maxSearchResults : {1, 3, defaultMaxSearchResults}]
    /\ pEntry \in Entries
    /\ gOptions = [given |-> TRUE, maxPages |-> 1]
    /\ gBlocked \in BlockedChoices
    /\ SearchStarts(SearchCallOf(pEntry, pOptions))
    /\ pPipeline = NoRecord /\ pLog = <<StageEvent("Discover", <<>>)>>
    /\ pExports = NoCall /\ pPc = "discover"
    /\ CliIdle
    /\ faults = MaxFaults

NextPipeline ==
    \/ SearchPage
    \/ SearchReturn
    \/ FindReturn
    \/ AfterDiscover
    \/ ScrapeDetect
    \/ ExtractPage
    \/ ExtractReturn
    \/ ExtractFinish
    \/ ScrapeCombine
    \/ ScrapeReturn
    \/ AfterValidate
    \/ AfterExtract
    \/ ExportResults

SpecPipeline == InitPipeline /\ [][NextPipeline]_vars

\* the most records of either kind a pipeline given to generateSummary holds
MaxSites == 3

\* the values isWordPress takes in a record of wordpressSites
Verdicts == <<TRUE, FALSE, "not_validated">>

\* the email lists of a contact record; the last record has no emails field
EmailLists ==
    <<<<>>, <<"info@acme.com">>, <<"info@acme.com", "sales@acme.com">>,
      <<"hi@plain.org", "info@acme.com", "jobs@plain.org">>>>

SiteOf(i, verdict) == [url |-> NatToString(i) \o ".example", isWordPress |-> Verdicts[verdict]]

ContactOf(i, emails) ==
    IF emails > Len(EmailLists) THEN [url |-> NatToString(i) \o ".example"]
    ELSE [url |-> NatToString(i) \o ".example", emails |-> EmailLists[emails]]

\* a pipeline as findAndScrapeWordPressSites accumulates it: the verdicts of
\* its wordpressSites and the email lists of its contactData
PipelineOf(verdicts, emails) ==
    [NewPipeline EXCEPT
        !.searchResults = [i \in DOMAIN verdicts |-> [url |-> NatToString(i) \o ".example"]],
        !.wordpressSites = [i \in DOMAIN verdicts |-> SiteOf(i, verdicts[i])],
        !.contactData = [i \in DOMAIN emails |-> ContactOf(i, emails[i])]]

\* pipeline.summary = this.generateSummary(pipeline)
Summarize ==
    /\ pPc = "summarize"
    /\ pPipeline' = [pPipeline EXCEPT !.summary = generateSummary(pPipeline)]
    /\ pPc' = "returned"
    /\ pLog' = Append(pLog, StageEvent("Summarize", <<>>))
    /\ UNCHANGED <<pOptions, pEntry, pExports, dVars, eVars, sVars, gVars, cVars, faults>>

\* generateSummary is about to be given some pipeline
InitSummary ==
    /\ dUrls = <<>> /\ dI = 0 /\ dResults = <<>> /\ dLog = <<>> /\ det = NoCall
    /\ eUrl = "" /\ eI = 0 /\ eInfo = NoInfo /\ eLog = <<>> /\ eRecord = NoRecord
    /\ ePc = "idle"
    /\ sOptions = NoOptions /\ sCall = NoOptions /\ sUrls = <<>> /\ sI = 0
    /\ sResults = <<>> /\ sDetection = NoCall /\ sPc = "idle" /\ sHist = <<>>
    /\ SearcherIdle
    /\ pOptions = NoOptions /\ pEntry = NoCall /\ pLog = <<>> /\ pExports = NoCall
    /\ \E n \in 0..MaxSites, m \in 0..MaxSites :
          \E verdicts \in [1..n -> 1..Len(Verdicts)],
             emails \in [1..m -> 1..(Len(EmailLists) + 1)] :
              pPipeline = PipelineOf(verdicts, emails)
    /\ pPc = "summarize"
    /\ CliIdle
    /\ faults = 0

NextSummary == Summarize \/ ExportResults

SpecSummary == InitSummary /\ [][NextSummary]_vars

---------------------------------------------------------------------------
(* The scrape command and the DataExporter *)

\* options.urls.split(',').map(url => url.trim())
UrlsOption(urls) ==
    [i \in 1..Len(Split(urls, ",")) |-> Trim(Split(urls, ",")[i])]

\* readUrlsFromFile: the trimmed lines that are neither empty nor comments
FileUrls(lines) ==
    SelectSeq([i \in 1..Len(lines) |-> Trim(lines[i])],
              LAMBDA line : line # "" /\ ~StartsWith(line, "#"))

\* validateUrls, the test of one url: new URL(testUrl) does not throw
AcceptsUrl(url) ==
    ParseUrl(IF StartsWith(url, "http://") \/ StartsWith(url, "https://") THEN url
             ELSE "https://" \o url).ok

\* validateUrls
validateUrls(urls) ==
    [valid |-> SelectSeq(urls, AcceptsUrl),
     invalid |-> SelectSeq(urls, LAMBDA url : ~AcceptsUrl(url))]

\* process.exit(1): nothing of the action runs after it
Exit1 ==
    /\ cPc' = "exited" /\ cExit' = 1
    /\ UNCHANGED <<cUrls, cValid, cDir, sVars>>

\* the urls given to scrapeAndExport: validation.valid
ValidUrls(urls) == validateUrls(urls).valid

\* the scrape action from the test of urls.length on: the exit, or the scraper
\* is built (its exporter starts making the output directory), the urls are
\* validated and scrapeAndExport calls scrapeBatch(validation.valid)
WithUrls(urls) ==
    IF Len(urls) = 0
    THEN /\ cPc' = "exited" /\ cExit' = 1
         /\ UNCHANGED <<cValid, cDir, sVars>>
    ELSE /\ cValid' = ValidUrls(urls)
         /\ cDir' = IF cDir = "created" THEN cDir ELSE "pending"
         /\ cPc' = "scraping"
         /\ sOptions' = ScraperOptions(cOptions.wpOnly)
         /\ sCall' = NoOptions
         /\ sUrls' = ValidUrls(urls)
         /\ sI' = 0 /\ sResults' = <<>> /\ sDetection' = NoCall /\ sPc' = "detect"
         /\ sHist' = <<>>
         /\ UNCHANGED cExit

\* the scrape action up to its first read of a file, or all of it up to the
\* call of scrapeBatch when the urls come from --urls
ScrapeCommand ==
    /\ cPc = "start"
    /\ IF Has(cOptions, "urls") /\ cOptions.urls # ""
       THEN /\ cUrls' = UrlsOption(cOptions.urls)
            /\ WithUrls(UrlsOption(cOptions.urls))
       ELSE IF Has(cOptions, "file") /\ cOptions.file # ""
       THEN /\ cPc' = "reading"
            /\ cDir' = "pending"
            /\ UNCHANGED <<cUrls, cValid, cExit, sVars>>
       ELSE /\ Exit1
    /\ UNCHANGED <<cOptions, cFile, cWrites, dVars, eVars, gVars, pVars, faults>>

\* readUrlsFromFile is over: the file is missing and the catch of the action
\* exits, or the action goes on with the urls read
FileRead ==
    /\ cPc = "reading"
    /\ IF cOptions.file = "missing.txt"
       THEN Exit1
       ELSE /\ cUrls' = FileUrls(cFile)
            /\ WithUrls(FileUrls(cFile))
    /\ UNCHANGED <<cOptions, cFile, cWrites, dVars, eVars, gVars, pVars, faults>>

\* fs.ensureDir, started by the constructor of DataExporter and awaited by
\* nobody, is over: the output directory exists
EnsureDirDone ==
    /\ cDir = "pending"
    /\ cPc \in {"reading", "scraping"}
    /\ cDir' = "created"
    /\ UNCHANGED <<cOptions, cFile, cUrls, cValid, cPc, cExit, cWrites, dVars, eVars, sVars,
                   gVars, pVars, faults>>

\* the files exportAll writes, in order
exportFiles == <<"json", "csv", "emailList", "report">>

\* a write of exportAll: whether the directory creation was pending at its start
WriteEvent(file, pending, ok) == [file |-> file, pending |-> pending, ok |-> ok]

\* scrapeAndExport after scrapeBatch: exportAll writes its files, and the
\* process ends with status 0.  A write started while the directory is still
\* being made finds it or not; when it does not, exportAll throws and the
\* catch of the action exits with status 1
ExportAll ==
    /\ cPc = "scraping"
    /\ sPc = "done"
    /\ \E found \in BOOLEAN :
          /\ cDir = "created" => found
          /\ IF found
             THEN /\ cWrites' = [i \in 1..Len(exportFiles) |->
                                    WriteEvent(exportFiles[i], i = 1 /\ cDir = "pending", TRUE)]
                  /\ cDir' = "created"
                  /\ cPc' = "done" /\ cExit' = 0
             ELSE /\ cWrites' = <<WriteEvent(exportFiles[1], TRUE, FALSE)>>
                  /\ cPc' = "exited" /\ cExit' = 1
                  /\ UNCHANGED cDir
    /\ UNCHANGED <<cOptions, cFile, cUrls, cValid, dVars, eVars, sVars, gVars, pVars, faults>>

\* the command lines of the model
CommandLines ==
    {[given |-> TRUE, wpOnly |-> w] : w \in BOOLEAN}
    \cup {[given |-> TRUE, wpOnly |-> w, urls |-> u] :
             w \in BOOLEAN,
             u \in {"", ",", "acme.com:8x", "acme.com:8x, plain.org", "down.net",
                    "acme.com,plain.org"}}
    \cup {[given |-> TRUE, wpOnly |-> w, file |-> f] :
             w \in BOOLEAN, f \in {"urls.txt", "missing.txt"}}

\* the contents of urls.txt
Files ==
    {<<>>, <<"# sites", "">>, <<"# sites", " plain.org ">>, <<"https://">>}

\* the scrape command is started with some command line
InitCli ==
    /\ dUrls = <<>> /\ dI = 0 /\ dResults = <<>> /\ dLog = <<>> /\ det = NoCall
    /\ eUrl = "" /\ eI = 0 /\ eInfo = NoInfo /\ eLog = <<>> /\ eRecord = NoRecord
    /\ ePc = "idle"
    /\ sOptions = NoOptions /\ sCall = NoOptions /\ sUrls = <<>> /\ sI = 0
    /\ sResults = <<>> /\ sDetection = NoCall /\ sPc = "idle" /\ sHist = <<>>
    /\ SearcherIdle /\ ProspectorIdle
    /\ cOptions \in CommandLines
    /\ cFile \in (IF Has(cOptions, "file") /\ cOptions.file = "urls.txt" THEN Files
                  ELSE {<<>>})
    /\ cUrls = <<>> /\ cValid = <<>> /\ cPc = "start" /\ cExit = -1 /\ cDir = "none"
    /\ cWrites = <<>>
    /\ faults = 0

NextCli ==
    \/ ScrapeCommand
    \/ FileRead
    \/ EnsureDirDone
    \/ ScrapeDetect
    \/ ExtractPage
    \/ ExtractReturn
    \/ ExtractFinish
    \/ ScrapeCombine
    \/ ScrapeReturn
    \/ ExportAll

SpecCli == InitCli /\ [][NextCli]_vars

---------------------------------------------------------------------------
(* Properties of the detector *)

\* t occurs in s when case is ignored
ContainsIgnoreCase(s, t) ==
    \E i \in 1..(Len(s) - Len(t) + 1) : ToLower(SubSeq(s, i, i + Len(t) - 1)) = ToLower(t)

\* the page a url serves, and the indicators its raw body contains
Served(url) == Web[EnsureProtocol(url)]

BodyIndicators ==
    [u \in {v \in Urls : EnsureProtocol(v) \in DOMAIN Web} |->
        {k \in 1..Len(indicators) : ContainsIgnoreCase(Render(Served(u)), indicators[k])}]

\* the primary fetch of the last call succeeded
PrimaryFetched == det.called /\ ~det.pFault /\ EnsureProtocol(det.url) \in DOMAIN Web

\* the probe of the last call was issued
ProbeIssued == Len(det.out.requests) = 2

\* the REST endpoint of the last call's site answers (would answer) with 200
ProbeAnswers200 == ~det.qFault /\ ApiStatus[EnsureProtocol(det.url)] = 200

\* the checks of the priority list that fire for the last call
FiringChecks ==
    {k \in 1..5 :
        CASE k = 1 -> BodyIndicators[det.url] # {}
          [] k = 2 -> GeneratorCheck(Served(det.url))
          [] k = 3 -> ProbeAnswers200
          [] k = 4 -> LinkCheck(Served(det.url))
          [] k = 5 -> BodyClassCheck(Served(det.url))}

CheckVerdict(k) ==
    CASE k = 1 -> Verdict(TRUE, indicators[Least(BodyIndicators[det.url])], "high")
      [] k = 2 -> Verdict(TRUE, "meta generator tag", "high")
      [] k = 3 -> Verdict(TRUE, "WordPress REST API", "high")
      [] k = 4 -> Verdict(TRUE, "WordPress assets in link tags", "medium")
      [] k = 5 -> Verdict(TRUE, "WordPress CSS classes", "medium")

\* C2: when the primary fetch succeeds and the raw body contains, ignoring case,
\* at least one indicator string, isWordPressSite returns isWordPress = true with
\* confidence high and the first indicator, in list order, that the body contains.
C2_FirstIndicatorWins ==
    (PrimaryFetched /\ BodyIndicators[det.url] # {}) =>
        /\ ~det.out.raised
        /\ det.out.verdict =
               Verdict(TRUE, indicators[Least(BodyIndicators[det.url])], "high")

\* a call on a page that holds three indicators, the first of them in another case
C2_Witness ==
    /\ PrimaryFetched
    /\ Cardinality(BodyIndicators[det.url]) >= 3
    /\ ~Includes(Render(Served(det.url)), indicators[Least(BodyIndicators[det.url])])
    /\ det.out.verdict.isWordPress

\* C3: the verdict is the one of the earliest check, in the order indicators,
\* generator tag, REST probe, link assets, body classes, that fires; the checks
\* after it are not evaluated, the probe request is issued only when checks 1 and 2
\* did not fire, and when no check fires the verdict is false, null, high.
C3_EarliestCheckDecides ==
    PrimaryFetched =>
        /\ IF FiringChecks = {}
           THEN /\ det.out.verdict = Verdict(FALSE, Null, "high")
                /\ det.out.checks = <<1, 2, 3, 4, 5>>
           ELSE /\ det.out.verdict = CheckVerdict(Least(FiringChecks))
                /\ det.out.checks = [i \in 1..Least(FiringChecks) |-> i]
        /\ ProbeIssued <=> (1 \notin FiringChecks /\ 2 \notin FiringChecks)

\* a call where check 1 fires, the probe would answer 200 and is not issued
C3_Witness ==
    /\ PrimaryFetched
    /\ {1, 3, 4} \subseteq FiringChecks
    /\ ~ProbeIssued
    /\ det.out.checks = <<1>>

C5_OneVerdictPerUrl ==
    /\ Len(dResults) = dI
    /\ dI <= Len(dUrls)
    /\ \A i \in 1..dI : dResults[i].url = dUrls[i]
    /\ (dI < Len(dUrls)) => ENABLED CheckNext
    /\ det.called =>
          dResults[dI] =
              IF PrimaryFetched
              THEN [url |-> det.url] @@ det.out.verdict
              ELSE [url |-> det.url, isWordPress |-> FALSE, indicator |-> Null,
                    confidence |-> "unknown", error |-> det.out.error]
    /\ (det.called /\ ~PrimaryFetched) => det.out.error # ""

\* a finished batch whose first url failed and whose second url got a verdict
C5_Witness ==
    /\ dI = Len(dUrls)
    /\ dI >= 2
    /\ dResults[1].confidence = "unknown"
    /\ dResults[2].isWordPress

\* C6 (as claimed): checkWordPressBatch pauses after every url it processes,
\* failed or not, so every primary fetch but the first comes right after a pause.
C6_PauseAfterEveryUrl ==
    /\ Cardinality({i \in 1..Len(dLog) : dLog[i] = "pause"}) = dI
    /\ \A i \in 2..Len(dLog) : dLog[i] = "fetch" => dLog[i - 1] = "pause"

\* the indicators check k reports when it is the one that decides
OwnIndicators(k) ==
    CASE k = 1 -> Range(indicators)
      [] k = 2 -> {"meta generator tag"}
      [] k = 3 -> {"WordPress REST API"}
      [] k = 4 -> {"WordPress assets in link tags"}
      [] k = 5 -> {"WordPress CSS classes"}

\* some site and some outcome of its two requests make isWordPressSite return a
\* positive verdict with an indicator of check k
CheckReachable(k) ==
    \E u \in Urls, pFault, qFault \in BOOLEAN :
        /\ ~Outcome[u][pFault][qFault].raised
        /\ Outcome[u][pFault][qFault].verdict.isWordPress
        /\ ToString(Outcome[u][pFault][qFault].verdict.indicator) \in
               {ToString(x) : x \in OwnIndicators(k)}

\* C27: each of the five checks (indicator string in the body, generator meta
\* tag, REST probe, link-tag asset, body class) decides the verdict of some page
\* and probe outcome and returns its own indicator; a verdict a batch has
\* returned as positive carries the indicator of one of the five.
C27_EveryCheckReachable ==
    /\ \A k \in 1..5 : CheckReachable(k)
    /\ (PrimaryFetched /\ det.out.verdict.isWordPress) =>
          \E k \in 1..5 : det.out.verdict.indicator \in OwnIndicators(k)

\* a call whose verdict is the one of the generator meta tag
C27_Witness ==
    /\ PrimaryFetched
    /\ det.out.verdict = Verdict(TRUE, "meta generator tag", "high")
    /\ det.out.checks = <<1, 2>>
---------------------------------------------------------------------------
(* Properties of the extractor *)

\* the requests extractContactInfo itself has made, in order
PrimaryFetches == SelectSeq(eLog, LAMBDA e : e.kind = "fetch" /\ e.by = "extractContactInfo")

\* the requests extractEmailsFromPage has made, in order
SecondFetches ==
    SelectSeq(eLog, LAMBDA e : e.kind = "fetch" /\ e.by = "extractEmailsFromPage")

C8_EmailsValidAndDistinct ==
    /\ \A i \in 1..Len(eInfo.emails) : IsEmail(eInfo.emails[i])
    /\ NoDuplicates(eInfo.emails)
    /\ eRecord.returned =>
          /\ \A i \in 1..Len(eRecord.emails) : IsEmail(eRecord.emails[i])
          /\ NoDuplicates(eRecord.emails)

\* a record with emails from the text, a mailto link, a data attribute and an
\* obfuscated pattern, from pages that also hold invalid candidates and repeats
C8_Witness ==
    /\ eRecord.returned
    /\ {"sales@acme.com", "info@realcompany.com", "jane@acme.com", "john@acme.com"}
           \subseteq Range(eRecord.emails)
    /\ \E e \in Range(SecondFetches) :
          /\ e.ok
          /\ "mailto:broken@" \in Range(Web[e.url].anchors)
          /\ "not-an-email" \in Range(Web[e.url].dataEmails)

\* the address is at a domain that starts with "example"
AtExampleDomain(email) == Includes(ToLower(email), "@example")

\* C9 (as claimed): the returned record holds no email at an "example" domain,
\* whatever its local part.
C9_NoExampleDomain ==
    eRecord.returned =>
        \A i \in 1..Len(eRecord.emails) : ~AtExampleDomain(eRecord.emails[i])

DigitCount(phone) == Len(KeepChars(phone, Digits, 1))

PhoneMatchesOf == [u \in DOMAIN Web |-> MatchAll(PageText(Web[u]), phoneRegex, 1)]

\* C10 (as claimed): a match of the phone pattern is kept exactly when it holds at
\* least 7 digits, in the formatting it was matched in.
C10_SevenDigits ==
    /\ \A i \in 1..Len(eInfo.phones) : DigitCount(eInfo.phones[i]) >= 7
    /\ \A e \in Range(PrimaryFetches) :
          e.ok => \A m \in Range(PhoneMatchesOf[e.url]) :
                      DigitCount(m) >= 7 => m \in Range(eInfo.phones)
\* the social links met so far: those of the pages that answered, in page order
\* and, within a page, in document order
RECURSIVE SocialLinksOf(_)
SocialLinksOf(fetches) ==
    IF fetches = <<>> THEN <<>>
    ELSE (IF Head(fetches).ok THEN SocialHrefs(Web[Head(fetches).url]) ELSE <<>>)
         \o SocialLinksOf(Tail(fetches))

Platforms == {"facebook", "twitter", "linkedin", "instagram", "other"}

\* C11: socialMedia holds at most one link per platform: the last link of that
\* platform met, in document order within a page and in page order across the
\* pages; a platform no link was met for has no entry.
C11_LastSocialLinkWins ==
    LET links == SocialLinksOf(PrimaryFetches)
        At(p) == {i \in 1..Len(links) : Platform(links[i]) = p}
    IN  /\ DOMAIN eInfo.socialMedia \subseteq Platforms
        /\ \A p \in Platforms :
              IF At(p) = {} THEN p \notin DOMAIN eInfo.socialMedia
              ELSE /\ p \in DOMAIN eInfo.socialMedia
                   /\ eInfo.socialMedia[p] = links[Greatest(At(p))]
        /\ eRecord.returned => eRecord.socialMedia = eInfo.socialMedia

\* a returned record whose facebook link is the last of three different ones, two
\* on the home page and one on a later page
C11_Witness ==
    /\ eRecord.returned
    /\ LET links == SocialLinksOf(PrimaryFetches)
           fb == {i \in 1..Len(links) : Platform(links[i]) = "facebook"}
       IN  /\ Cardinality({links[i] : i \in fb}) >= 3
           /\ eRecord.socialMedia["facebook"] = "https://facebook.com/acme-team"
           /\ eRecord.socialMedia["twitter"] = "https://twitter.com/acme"

\* C23: between any two consecutive fetches of an extraction, of the same
\* sub-page or of different ones, after a fetch that answered or one that
\* failed, there is a pause: no fetch follows a fetch directly
C23_PauseBetweenFetches ==
    \A i \in 1..(Len(eLog) - 1) :
        eLog[i].kind = "fetch" => eLog[i + 1].kind = "pause"

\* after the two fetches of a sub-page that answered comes a pause
PauseAfterAnsweredPage ==
    \A i \in 1..Len(eLog) :
        (eLog[i].kind = "fetch" /\ eLog[i].by = "extractEmailsFromPage") =>
            /\ i < Len(eLog)
            /\ eLog[i + 1].kind = "pause"

---------------------------------------------------------------------------
(* Properties of the searcher *)

\* the requests made for a query, in order
FetchesOf(query) == SelectSeq(gLog, LAMBDA e : e.kind = "fetch" /\ e.q = query)

\* the results on the pages that answered, in request order
RECURSIVE ParsedPages(_)
ParsedPages(fetches) ==
    IF fetches = <<>> THEN <<>>
    ELSE (IF Head(fetches).ok
          THEN parseGoogleResults(ResultPage(SearchRequest(Head(fetches).q,
                                                           Head(fetches).start)))
          ELSE <<>>) \o ParsedPages(Tail(fetches))

SameUrl(r1, r2) == ToLower(r1.url) = ToLower(r2.url)

\* the records of a list that no earlier record of the list has the url of,
\* ignoring case, in the order of the list
FirstOfEachUrl(results) ==
    LET key == [i \in 1..Len(results) |-> ToLower(results[i].url)]
        keep == {i \in 1..Len(results) : \A j \in 1..(i - 1) : key[j] # key[i]}
        Nth(n) == CHOOSE i \in keep : Cardinality({j \in keep : j <= i}) = n
    IN  [n \in 1..Cardinality(keep) |-> results[Nth(n)]]

DistinctUrls(results) ==
    LET key == [i \in 1..Len(results) |-> ToLower(results[i].url)]
    IN  \A i, j \in 1..Len(results) : key[i] = key[j] => i = j

C13_CleanUrlIdempotent ==
    \A i \in 1..Len(gResults) :
        ParseUrl(gResults[i].url).ok => cleanUrl(gResults[i].url) = gResults[i].url

\* C14: deduplicateResults keeps the first record of each url, ignoring case, in
\* the order of its input; its output holds no two records of the same url, and
\* deduplicating the output again changes nothing.
C14_FirstOfEachUrlKept ==
    /\ \A in \in {gResults, gAll} :
          LET out == deduplicateResults(in)
          IN  /\ out = FirstOfEachUrl(in)
              /\ DistinctUrls(out)
              /\ deduplicateResults(out) = out
    /\ gReturned.called =>
          DistinctUrls(gReturned.results)
              /\ deduplicateResults(gReturned.results) = gReturned.results
    /\ (gPc = "done" /\ gCall.kind = "searchByKeywords") => gOut = FirstOfEachUrl(gAll)

\* the results of a query hold two urls that differ in case only, and a url twice
C14_Witness ==
    /\ gPc = "page"
    /\ \E i, j \in 1..Len(gResults) :
          i < j /\ gResults[i].url # gResults[j].url /\ SameUrl(gResults[i], gResults[j])
    /\ \E i, j \in 1..Len(gResults) : i < j /\ gResults[i].url = gResults[j].url
    /\ Len(deduplicateResults(gResults)) < Len(gResults) - 1

\* redirect links of result pages, and the url the result should have: the
\* target, decoded and cleaned
RedirectTargets ==
    [href \in {"/url?q=https%3A%2F%2Fklass.net%2Fshop%3Fa%3D1&sa=U&ved=2ah"} |->
        "https://klass.net/shop"]

\* C15 (as claimed): a result block whose first link is a redirect link
\* /url?q=<encoded target> gives a result whose url is the cleaned target.
C15_RedirectFollowed ==
    \A k \in 1..Len(gLog) :
        (gLog[k].kind = "fetch" /\ gLog[k].ok) =>
            LET page == ResultPage(SearchRequest(gLog[k].q, gLog[k].start))
            IN  \A b \in 1..Len(page) :
                    (/\ page[b].classes \cap Range(resultSelectors) # {}
                     /\ page[b].hrefs # <<>>
                     /\ AttrValue(page[b].hrefs[1]) \in DOMAIN RedirectTargets)
                    => \E r \in Range(gResults) \cup Range(gAll) :
                          r.url = RedirectTargets[AttrValue(page[b].hrefs[1])]

\* the call is over: every query was made, or the cap was reached
QueriesDone == gQ = Len(gQueries) \/ CapReached(gCall.options, gAll)

C26_EarlyStopOnlyWhenCapMet ==
    (/\ gCall.kind = "findWordPressSites"
     /\ gPc = "done"
     /\ IsSet(gCall.options, "maxResults")
     /\ Len(gOut) < gCall.options.maxResults) => gQ = Len(gQueries)

---------------------------------------------------------------------------
(* Properties of the pipeline *)

\* exportResults has been called with what the entry point returned
Exported == pPc \in {"exported", "failed"}

\* the stages a run went through, in order
Stages == [i \in 1..Len(pLog) |-> pLog[i].stage]

\* the urls a stage of the run was given, none when the stage did not run
StageUrls(stage) ==
    LET events == SelectSeq(pLog, LAMBDA e : e.stage = stage)
    IN  IF events = <<>> THEN <<>> ELSE events[1].urls

\* findAndScrapeWordPressSites has returned a pipeline it made a summary of
Summarized ==
    /\ pPc \in {"returned", "exported", "failed"}
    /\ Has(pPipeline, "summary")
    /\ Has(pPipeline.summary, "sitesValidated")

\* C17: whatever the entry point and whatever the search found, the pipeline
\* given to exportResults carries the computed summary metrics, Summarize ran
\* before Export, and the summary report was written rather than failing
C17_ExportedWithSummary ==
    Exported =>
        /\ Has(pPipeline, "summary")
        /\ pPipeline.summary = generateSummary(pPipeline)
        /\ \E i \in 1..Len(Stages) : Stages[i] = "Summarize" /\ Stages[Len(Stages)] = "Export"
        /\ ~pExports.summary.threw

\* findAndScrapeWordPressSites has returned from a run that skipped the
\* validation of what it discovered
ValidationSkipped ==
    /\ Summarized
    /\ pEntry.kind # "searchByKeywords"
    /\ ~pOptions.validateWordPress

\* with validation skipped, every discovered url is given to the Extract stage
\* and recorded in wordpressSites with the tag 'not_validated', and none of the
\* records is counted as confirmed
ForwardedAndTagged ==
    ValidationSkipped =>
        LET urls == extractDomains(pPipeline.searchResults)
        IN  /\ pPipeline.wordpressSites = NotValidated(urls)
            /\ pOptions.extractEmails => StageUrls("Extract") = urls
            /\ pPipeline.summary.confirmedWordPressSites = 0

\* C18: with validation skipped, every discovered url is given to the Extract
\* stage and recorded with the tag 'not_validated', and the summary counts none
\* of these records as a confirmed site nor as a site validated and denied
C18_NotValidatedKeptApart ==
    /\ ForwardedAndTagged
    /\ ValidationSkipped =>
           /\ pPipeline.summary.sitesValidated = 0
           /\ ToString(pPipeline.summary.wordpressDetectionRate) = "0"

\* the number a string of digits writes, a decimal point in it left out
RECURSIVE DigitsValue(_)
DigitsValue(str) ==
    IF str = "" THEN 0
    ELSE LET c == CharAt(str, Len(str))
             rest == SubSeq(str, 1, Len(str) - 1)
         IN  IF c = "." THEN DigitsValue(rest)
             ELSE 10 * DigitsValue(rest) + IndexIn(c, Digits) - 1

\* str writes, with one decimal, a number within half a tenth of num / den
IsQuotient(str, num, den) ==
    LET tenths == DigitsValue(str)
        gap == tenths * den - 10 * num
    IN  /\ Len(str) >= 3
        /\ CharAt(str, Len(str) - 1) = "."
        /\ \A i \in (1..Len(str)) \ {Len(str) - 1} : CharAt(str, i) \in CharsOf(Digits)
        /\ 2 * gap <= den
        /\ 2 * gap >= 0 - den

\* the sites of a list a condition holds of
CountOf(list, Test(_)) == Cardinality({i \in 1..Len(list) : Test(list[i])})

\* C19: generateSummary makes a summary of every pipeline: with no validated
\* site the detection rate is 0, with no site having emails the average is 0,
\* otherwise the rate is confirmed / validated x 100 and the average is
\* totalEmails / sitesWithEmails, and the same data give the same summary
C19_SummaryNeverDivides ==
    pPc = "returned" =>
        LET summary == pPipeline.summary
            validated == Len(pPipeline.wordpressSites)
            confirmed == CountOf(pPipeline.wordpressSites,
                                 LAMBDA site : ToString(site.isWordPress) = "TRUE")
            withEmails == CountOf(pPipeline.contactData,
                                  LAMBDA site : Has(site, "emails") /\ site.emails # <<>>)
            totalEmails == SumOfEmails(pPipeline.contactData)
        IN  /\ Has(pPipeline, "summary") /\ Has(summary, "wordpressDetectionRate")
            /\ summary.sitesValidated = validated
            /\ summary.confirmedWordPressSites = confirmed
            /\ summary.sitesWithContactInfo = withEmails
            /\ summary.totalEmails = totalEmails
            /\ IF validated = 0 THEN ToString(summary.wordpressDetectionRate) = "0"
               ELSE IsQuotient(summary.wordpressDetectionRate, 100 * confirmed, validated)
            /\ IF withEmails = 0 THEN ToString(summary.avgEmailsPerSite) = "0"
               ELSE IsQuotient(summary.avgEmailsPerSite, totalEmails, withEmails)
            /\ summary = generateSummary(pPipeline)

\* a summary was made of three sites, one of them confirmed, and of contact
\* records none of which has an email
C19_Witness ==
    /\ pPc = "returned"
    /\ Len(pPipeline.wordpressSites) = 3
    /\ pPipeline.summary.confirmedWordPressSites = 1
    /\ pPipeline.summary.wordpressDetectionRate = "33.3"
    /\ pPipeline.contactData # <<>>
    /\ pPipeline.summary.sitesWithContactInfo = 0
    /\ ToString(pPipeline.summary.avgEmailsPerSite) = "0"

\* findAndScrapeWordPressSites has returned from a run that validated what it
\* discovered
Validated ==
    /\ Summarized
    /\ pEntry.kind # "searchByKeywords"
    /\ pOptions.validateWordPress

\* C20: with validation on, the summary's sitesValidated is the number of
\* discovered urls given to the detection, so that the detection rate is
\* confirmed / checked x 100, below 100 when a checked site was not confirmed
C20_ValidatedCountsChecked ==
    Validated =>
        LET checked == Len(StageUrls("Validate"))
            summary == pPipeline.summary
        IN  /\ checked = Len(extractDomains(pPipeline.searchResults))
            /\ summary.sitesValidated = checked
            /\ IsQuotient(summary.wordpressDetectionRate,
                          100 * summary.confirmedWordPressSites, checked)
            /\ summary.confirmedWordPressSites < checked
                   => summary.wordpressDetectionRate # "100.0"

\* C24: the options of a scrapeBatch call override those of the constructor:
\* a stage of the pipeline that calls scrapeBatch with onlyWordPress: false
\* drops no site and gets one record per url it submitted
C24_CallOptionsOverride ==
    (sCall.given /\ ~sCall.onlyWordPress) =>
        /\ \A i \in 1..Len(sHist) : ~sHist[i].skipped
        /\ sPc = "done" => Len(sResults) = Len(sUrls)

\* no element of the list comes twice
Distinct(list) == \A i, j \in 1..Len(list) : list[i] = list[j] => i = j

\* the urls of a list of site records
SitesOf(records) == [i \in 1..Len(records) |-> records[i].url]

\* C25: the sites given to the Validate and Extract stages are pairwise
\* distinct, and wordpressSites and contactData hold at most one record per
\* site, so that no site's emails are counted twice
C25_EachSiteOnce ==
    /\ \A i \in 1..Len(pLog) : Distinct(pLog[i].urls)
    /\ pPc \in {"returned", "exported", "failed"} =>
           /\ Distinct(SitesOf(pPipeline.wordpressSites))
           /\ Distinct(SitesOf(pPipeline.contactData))

\* the search results the pipeline starts from have pairwise distinct urls
SearchResultsDistinct ==
    pPc \in {"returned", "exported", "failed"} =>
        Distinct([i \in 1..Len(pPipeline.searchResults) |->
                     ToLower(pPipeline.searchResults[i].url)])


\* the pipeline an entry point has returned
PipelineReturned == pPc \in {"returned", "exported", "failed"}

\* with extraction disabled the returned contactData is empty
ContactDataEmptyWhenDisabled ==
    (PipelineReturned /\ ~pOptions.extractEmails) => pPipeline.contactData = <<>>

\* C28: with extractEmails false no stage of the pipeline extracts contacts: no
\* candidate page of any site is requested for harvesting (the extractor issues
\* no request, only the detector does), and contactData is empty.
C28_NoExtractionWhenDisabled ==
    ~pOptions.extractEmails =>
        /\ eLog = <<>>
        /\ ePc = "idle"
        /\ PipelineReturned => pPipeline.contactData = <<>>

\* the cap on the search results holds on the entry points that go through
\* findAndScrapeWordPressSites
CapOnFindEntries ==
    (PipelineReturned /\ pEntry.kind # "searchByKeywords") =>
        Len(pPipeline.searchResults) <= pOptions.maxSearchResults

\* C29: on every entry point, searchByKeywords included, the returned pipeline
\* holds at most maxSearchResults search results, and with validateWordPress
\* false the detector is never run.
C29_CapAndSkipOnEveryEntry ==
    /\ PipelineReturned => Len(pPipeline.searchResults) <= pOptions.maxSearchResults
    /\ ~pOptions.validateWordPress => sHist = <<>>
---------------------------------------------------------------------------
(* Properties of the scrape command *)

\* the urls the command line supplies, directly or in its file
SuppliedUrls ==
    IF Has(cOptions, "urls") /\ cOptions.urls # "" THEN UrlsOption(cOptions.urls)
    ELSE IF Has(cOptions, "file") /\ cOptions.file = "urls.txt" THEN FileUrls(cFile)
    ELSE <<>>

\* the command is over
CommandOver == cPc \in {"done", "exited"}

\* with no url supplied, or an empty list, the command exits with status 1
\* and neither scrapes nor exports
NoUrlExitsNonZero ==
    SuppliedUrls = <<>> =>
        /\ sPc = "idle" /\ cWrites = <<>>
        /\ CommandOver => cExit = 1

\* C21: with no usable input (no url supplied, an empty list, or every url
\* rejected by validateUrls) the command exits with a non-zero status and
\* runs neither the scrape nor the export
C21_NoUsableInputExitsNonZero ==
    ValidUrls(SuppliedUrls) = <<>> =>
        /\ sPc = "idle" /\ cWrites = <<>>
        /\ CommandOver => cExit = 1


\* C30: the directory creation the constructor of DataExporter starts is over
\* before the first write of exportAll begins, in every interleaving, a batch
\* over zero urls included: no write starts while the creation is pending.
C30_DirectoryReadyBeforeWrites ==
    \A i \in 1..Len(cWrites) : ~cWrites[i].pending

---------------------------------------------------------------------------
(* Properties of the scraper *)

RECURSIVE NotSkipped(_)
NotSkipped(hist) ==
    IF hist = <<>> THEN <<>>
    ELSE (IF Head(hist).skipped THEN <<>> ELSE <<Head(hist).url>>) \o NotSkipped(Tail(hist))

\* with onlyWordPress on in the scraper's options, a site whose verdict is
\* negative is not extracted from and leaves no record
NegativeVerdictSkipped ==
    sOptions.onlyWordPress =>
        /\ sPc = "extract" => sDetection.isWordPress
        /\ \A i \in 1..Len(sHist) :
              sHist[i].skipped <=> (~sHist[i].raised /\ sHist[i].url = "plain.org")
        /\ sPc = "done" =>
              [i \in 1..Len(sResults) |-> sResults[i].url] = NotSkipped(sHist)

\* C22: with onlyWordPress on in the scraper's options, every record
\* scrapeBatch returns has isWordPress true, and a site whose verdict is
\* negative is not extracted from and leaves no record
C22_OnlyWordPressRecords ==
    /\ NegativeVerdictSkipped
    /\ sOptions.onlyWordPress =>
           \A i \in 1..Len(sResults) : sResults[i].isWordPress


====
